---- MODULE Spec2Model ----
(***************************************************************************)
(* Behaviour core of escort-mission: the per-tick GameScreen.Update        *)
(* handler (input, Shoot, agent updates, collision response) and the boss  *)
(* state machine of Boss.Update.                                           *)
(*                                                                         *)
(* The spatial index (resolv), the sprite metadata and the audio players   *)
(* are external collaborators: a query's answer is an input of the tick,   *)
(* a frame range is a table, and a sound call is recorded in Sounds.       *)
(***************************************************************************)
EXTENDS Integers, Sequences, FiniteSets, TLC

(***************************************************************************)
(* Bounds of the model                                                     *)
(***************************************************************************)
\* frames of every boss animation clip (sprite metadata, not in the sources)
ClipLen == 2
\* magazine size restored by a completed reload
MaxAmmo == 2
\* hits a normal zombie takes before it dies
NormalHitToDie == 1
\* objects met on a line of fire
MaxLine == 2
\* candidates a Check(0, 0, tagMob) of the dog returns
MaxNear == 2

\* HitToDie of a freshly spawned boss: the top bucket of the dispatch table
BossHitToDie == 10

(***************************************************************************)
(* Enumerations                                                            *)
(***************************************************************************)
\* base zombie states read by the boss dispatch
zombieIdle == "zombieIdle"
zombieWalking == "zombieWalking"
zombieHit == "zombieHit"
zombieDead == "zombieDead"
ZombieStates == {zombieIdle, zombieWalking, zombieHit, zombieDead}

\* boss animation tags, in the order used for the frame table
BossTags == << "bossIdle1", "bossWalking1", "bossHit1",
               "bossIdle2", "bossWalking2", "bossHit2",
               "bossIdle3", "bossWalking3",
               "bossIdle4", "bossRunning",
               "bossDeath1", "bossPhase2", "bossDeath2" >>
BossStates == {BossTags[i] : i \in 1..Len(BossTags)}

TagIndex(s) == CHOOSE i \in 1..Len(BossTags) : BossTags[i] = s

\* z.Sprite.Meta.FrameTags[z.State]: the frame range of a clip
FrameTags(s) == [From |-> (TagIndex(s) - 1) * ClipLen,
                 To |-> (TagIndex(s) - 1) * ClipLen + ClipLen - 1]

\* player states named by Shoot and GameScreen.Update
PlayerStates == {"playerIdle", "playerReady", "playerShooting",
                 "playerUnready", "playerReload", "playerDryFire"}

\* dog modes
dogWalking == "dogWalking"
dogDead == "dogDead"

\* game states returned by GameScreen.Update
gameRunning == "gameRunning"
gameOver == "gameOver"
gameWon == "gameWon"

\* zombies of the level: the boss's inner zombie and the normal ones
BossId == 0
NormalIds == {1}
ZombieIds == {BossId} \cup NormalIds

\* Speed values of the boss
zombieBigSpeed == "zombieBigSpeed"
zombieSprinterSpeed2 == "zombieSprinterSpeed*2"

\* twice a Speed: the boss is spawned with the speed of a sprinter
Twice(speed) == IF speed = zombieBigSpeed THEN zombieSprinterSpeed2 ELSE "2*" \o speed

(***************************************************************************)
(* Boss: dispatch table, frame advance, animation-complete callback        *)
(***************************************************************************)
\* the switch on the base zombie state inside one HitToDie bucket: a base
\* state without a case leaves the display state as it was
Inner(zstate, onIdle, onWalking, onHit, prev) ==
    CASE zstate = zombieIdle -> onIdle
      [] zstate = zombieWalking -> onWalking
      [] zstate = zombieHit -> onHit
      [] OTHER -> prev

\* a phase-1 table whose bucket of hit2 starts at 7
DispatchPhase1_Hit2From7(hit, zstate, prev) ==
    CASE hit \in {10, 9, 8} -> Inner(zstate, "bossIdle1", "bossWalking1", "bossHit1", prev)
      [] hit \in {7, 6, 5} -> Inner(zstate, "bossIdle2", "bossWalking2", "bossHit2", prev)
      [] hit \in {4, 3} -> Inner(zstate, "bossIdle3", "bossWalking3", "bossHit2", prev)
      [] hit = 2 -> Inner(zstate, "bossIdle4", "bossRunning", "bossDeath1", prev)
      [] hit = 1 -> Inner(zstate, prev, prev, "bossDeath2", prev)
      [] OTHER -> prev

\* the `else` branch of Boss.Update: the phase-1 buckets
DispatchPhase1(hit, zstate, prev) ==
    CASE hit \in {10, 9, 8} -> Inner(zstate, "bossIdle1", "bossWalking1", "bossHit1", prev)
      [] hit = 7 -> Inner(zstate, "bossIdle2", "bossWalking2", "bossHit1", prev)
      [] hit \in {6, 5} -> Inner(zstate, "bossIdle2", "bossWalking2", "bossHit2", prev)
      [] hit \in {4, 3} -> Inner(zstate, "bossIdle3", "bossWalking3", "bossHit2", prev)
      [] hit = 2 -> Inner(zstate, "bossIdle4", "bossRunning", "bossDeath1", prev)
      [] hit = 1 -> Inner(zstate, prev, prev, "bossDeath2", prev)
      [] OTHER -> prev

\* a phase-2 branch that idles in bossIdle4 at HitToDie = 1
DispatchDaemon_IdleAt1(hit, zstate, prev) ==
    CASE hit = 2 -> Inner(zstate, "bossIdle4", "bossRunning", "bossDeath1", prev)
      [] hit = 1 -> Inner(zstate, "bossIdle4", prev, "bossDeath2", prev)
      [] OTHER -> prev

\* the `if z.Daemon` branch of Boss.Update: cases 2 and 1 only
DispatchDaemon(hit, zstate, prev) ==
    CASE hit = 2 -> Inner(zstate, "bossIdle4", "bossRunning", "bossDeath1", prev)
      [] hit = 1 -> Inner(zstate, prev, prev, "bossDeath2", prev)
      [] OTHER -> prev

\* a state recompute that falls back to bossIdle4 when HitToDie has no case
Dispatch_NoCaseIdles(daemon, hit, zstate, prev) ==
    IF hit < 1 THEN "bossIdle4"
    ELSE IF daemon THEN DispatchDaemon(hit, zstate, prev)
    ELSE DispatchPhase1(hit, zstate, prev)

\* state recompute of Boss.Update: the display state selected from
\* (Daemon, HitToDie, base state), prev when no case assigns
Dispatch(daemon, hit, zstate, prev) ==
    IF daemon THEN DispatchDaemon(hit, zstate, prev)
              ELSE DispatchPhase1(hit, zstate, prev)

\* frame advance: a frame outside the clip restarts it, a frame inside it
\* advances by one per tick and loops after the last frame
Animate(frame, ft) ==
    IF frame < ft.From \/ frame > ft.To THEN ft.From
    ELSE IF frame < ft.To THEN frame + 1
    ELSE ft.From

\* Zombie.Die: the zombie leaves the spatial index
ZombieDie(z) == [z EXCEPT !.InSpace = FALSE]

\* Boss.Die
BossDie(w) ==
    [w EXCEPT !.z = ZombieDie(w.z), !.b.Dead = TRUE, !.defeated = TRUE]

\* a callback whose bossDeath1 case is the final death
outterAnimationBasedStateChanges_Death1Dies(w) ==
    CASE w.b.State = "bossHit1" ->
           [w EXCEPT !.b.State = "bossWalking1", !.z.State = zombieWalking]
      [] w.b.State = "bossHit2" ->
           [w EXCEPT !.b.State = "bossWalking2", !.z.State = zombieWalking]
      [] w.b.State = "bossPhase2" ->
           [w EXCEPT !.snd = @ \cup {"soundBigZombieScream.Play"},
                     !.b.State = "bossRunning",
                     !.z.State = zombieWalking]
      [] w.b.State \in {"bossDeath1", "bossDeath2"} ->
           [BossDie([w EXCEPT !.snd = @ \cup {"soundBigZombieDeath2.Play"}])
              EXCEPT !.z.State = zombieDead]
      [] OTHER -> w

\* Boss.outterAnimationBasedStateChanges on w = [b: boss fields, z: inner
\* zombie, defeated: g.BossDefeated, snd: sound calls]
outterAnimationBasedStateChanges(w) ==
    CASE w.b.State = "bossHit1" ->
           [w EXCEPT !.b.State = "bossWalking1", !.z.State = zombieWalking]
      [] w.b.State = "bossHit2" ->
           [w EXCEPT !.b.State = "bossWalking2", !.z.State = zombieWalking]
      [] w.b.State = "bossDeath1" ->
           [w EXCEPT !.snd = @ \cup {"soundBigZombieDeath1.Play"},
                     !.b.Daemon = TRUE,
                     !.z.Speed = zombieSprinterSpeed2,
                     !.b.State = "bossPhase2",
                     !.z.State = zombieWalking]
      [] w.b.State = "bossPhase2" ->
           [w EXCEPT !.snd = @ \cup {"soundBigZombieScream.Play"},
                     !.b.State = "bossRunning",
                     !.z.State = zombieWalking]
      [] w.b.State = "bossDeath2" ->
           [BossDie([w EXCEPT !.snd = @ \cup {"soundBigZombieDeath2.Play"}])
              EXCEPT !.z.State = zombieDead]
      [] OTHER -> w

\* Zombie.Update of one zombie; `choice` is what the proximity logic and the
\* zombie's own clip decide this tick: "stay", "idle", "walk" or "clipEnd"
ZombieUpdate(z, choice) ==
    IF z.State = zombieDead THEN z
    ELSE IF z.State = zombieHit THEN
        IF z.HitToDie <= 0 THEN [ZombieDie(z) EXCEPT !.State = zombieDead]
        ELSE IF choice = "clipEnd" THEN [z EXCEPT !.State = zombieWalking]
        ELSE z
    ELSE CASE choice = "idle" -> [z EXCEPT !.State = zombieIdle]
           [] choice = "walk" -> [z EXCEPT !.State = zombieWalking]
           [] OTHER -> z

ZombieChoices == {"stay", "idle", "walk", "clipEnd"}

\* a Boss.Update that tests the end of the clip before the frame advance
BossUpdate_CheckFirst(w, choice) ==
    IF w.b.Dead THEN w
    ELSE
      LET s1 == [w EXCEPT !.b.State = Dispatch(w.b.Daemon, w.z.HitToDie, w.z.State, w.b.State)]
          s2 == IF s1.b.Frame = FrameTags(s1.b.State).To
                THEN outterAnimationBasedStateChanges(s1) ELSE s1
          s3 == [s2 EXCEPT !.b.Frame = Animate(s2.b.Frame, FrameTags(s2.b.State))]
      IN IF s3.b.State \in {"bossDeath1", "bossDeath2", "bossPhase2"}
         THEN s3
         ELSE [s3 EXCEPT !.z = ZombieUpdate(s3.z, choice)]

\* a Boss.Update that runs the callback on every frame of the clip
BossUpdate_CallbackEveryFrame(w, choice) ==
    IF w.b.Dead THEN w
    ELSE
      LET s1 == [w EXCEPT !.b.State = Dispatch(w.b.Daemon, w.z.HitToDie, w.z.State, w.b.State)]
          s2 == [s1 EXCEPT !.b.Frame = Animate(s1.b.Frame, FrameTags(s1.b.State))]
          s3 == outterAnimationBasedStateChanges(s2)
      IN IF s3.b.State \in {"bossDeath1", "bossDeath2", "bossPhase2"}
         THEN s3
         ELSE [s3 EXCEPT !.z = ZombieUpdate(s3.z, choice)]

\* a Boss.Update without the test of Dead
BossUpdate_NoDeadTest(w, choice) ==
    LET s1 == [w EXCEPT !.b.State = Dispatch(w.b.Daemon, w.z.HitToDie, w.z.State, w.b.State)]
        s2 == [s1 EXCEPT !.b.Frame = Animate(s1.b.Frame, FrameTags(s1.b.State))]
        s3 == IF s2.b.Frame = FrameTags(s2.b.State).To
              THEN outterAnimationBasedStateChanges(s2) ELSE s2
    IN IF s3.b.State \in {"bossDeath1", "bossDeath2", "bossPhase2"}
       THEN s3
       ELSE [s3 EXCEPT !.z = ZombieUpdate(s3.z, choice)]

\* Boss.Update
BossUpdate(w, choice) ==
    IF w.b.Dead THEN w
    ELSE
      LET s1 == [w EXCEPT !.b.State = Dispatch(w.b.Daemon, w.z.HitToDie, w.z.State, w.b.State)]
          s2 == [s1 EXCEPT !.b.Frame = Animate(s1.b.Frame, FrameTags(s1.b.State))]
          s3 == IF s2.b.Frame = FrameTags(s2.b.State).To
                THEN outterAnimationBasedStateChanges(s2) ELSE s2
      IN IF s3.b.State \in {"bossDeath1", "bossDeath2", "bossPhase2"}
         THEN s3
         ELSE [s3 EXCEPT !.z = ZombieUpdate(s3.z, choice)]

\* the nil error
nil == "nil"

\* the error Boss.Update returns
BossUpdateErr(b) == IF b.Dead THEN "Zombie Boss died" ELSE nil

(***************************************************************************)
(* Player, Shoot                                                           *)
(***************************************************************************)
\* Zombie.Hit: one unit of damage, and the hit reaction starts
Hit(z) == [z EXCEPT !.HitToDie = @ - 1, !.State = zombieHit]

\* Player.Reload on c = [p: player, zs: zombies, snd: sound calls]
Reload(c) ==
    [c EXCEPT !.p.State = "playerReload",
              !.snd = @ \cup {"soundGunReload.Play"}]

\* an R key handler that reloads in every player state
ReloadKey_AnyState(c, r) ==
    IF r THEN Reload(c) ELSE c

\* the R key handler of GameScreen.Update
ReloadKey(c, r) ==
    IF r /\ c.p.State \notin {"playerShooting", "playerReload"}
    THEN Reload(c) ELSE c

\* objects the spatial index can report on a line of fire: a wall, or a
\* zombie still registered in the space
tagWall == "wall"
tagMob == "mob"
LineObjects(zs) ==
    {[tag |-> tagWall, Data |-> -1]}
      \cup {[tag |-> tagMob, Data |-> i] : i \in {j \in ZombieIds : zs[j].InSpace}}

\* o.HasTags(tagMob)
HasTagMob(o) == o.tag = tagMob

\* the objects of the cells of CellsInLine, in the order the two loops of
\* Shoot visit them; an object spanning several cells is met several times
Lines(zs) == UNION {[1..n -> LineObjects(zs)] : n \in 0..MaxLine}

\* index of the first object tagged mob on the line, 0 when there is none
FirstMob(ln) ==
    IF \E k \in 1..Len(ln) : HasTagMob(ln[k])
    THEN CHOOSE k \in 1..Len(ln) :
           HasTagMob(ln[k]) /\ \A j \in 1..(k - 1) : ~HasTagMob(ln[j])
    ELSE 0

\* the interruptReload closure of Shoot
interruptReload(c) ==
    [c EXCEPT !.snd = @ \cup {"soundGunReload.Pause", "soundDryFire.Play"},
              !.p.State = "playerDryFire"]

\* every mob met on the line takes a hit
RECURSIVE HitAll(_, _)
HitAll(zs, ln) ==
    IF ln = << >> THEN zs
    ELSE HitAll(IF HasTagMob(Head(ln)) THEN [zs EXCEPT ![Head(ln).Data] = Hit(@)] ELSE zs,
                Tail(ln))

\* Shoot without the ammunition test
Shoot_NoAmmoTest(c, ln) ==
    CASE c.p.State \in {"playerShooting", "playerReady", "playerUnready"} -> c
      [] c.p.State = "playerReload" -> interruptReload(c)
      [] OTHER ->
           LET fired == [c EXCEPT !.snd = @ \cup {"soundGunShot.Play"},
                                  !.p.Ammo = @ - 1,
                                  !.p.State = "playerShooting"]
               k == FirstMob(ln)
           IN IF k = 0 THEN fired
              ELSE [fired EXCEPT !.snd = @ \cup {"soundHit1.Play"},
                                 !.zs[ln[k].Data] = Hit(@)]

\* Shoot that treats playerReload like any state that may fire
Shoot_ReloadFires(c, ln) ==
    CASE c.p.State \in {"playerShooting", "playerReady", "playerUnready"} -> c
      [] OTHER ->
           IF c.p.Ammo < 1 THEN interruptReload(c)
           ELSE LET fired == [c EXCEPT !.snd = @ \cup {"soundGunShot.Play"},
                                       !.p.Ammo = @ - 1,
                                       !.p.State = "playerShooting"]
                    k == FirstMob(ln)
                IN IF k = 0 THEN fired
                   ELSE [fired EXCEPT !.snd = @ \cup {"soundHit1.Play"},
                                      !.zs[ln[k].Data] = Hit(@)]

\* Shoot without the return at the first zombie
Shoot_NoReturn(c, ln) ==
    CASE c.p.State \in {"playerShooting", "playerReady", "playerUnready"} -> c
      [] c.p.State = "playerReload" -> interruptReload(c)
      [] OTHER ->
           IF c.p.Ammo < 1 THEN interruptReload(c)
           ELSE LET fired == [c EXCEPT !.snd = @ \cup {"soundGunShot.Play"},
                                       !.p.Ammo = @ - 1,
                                       !.p.State = "playerShooting"]
                IN IF FirstMob(ln) = 0 THEN fired
                   ELSE [fired EXCEPT !.snd = @ \cup {"soundHit1.Play"},
                                      !.zs = HitAll(@, ln)]

\* Shoot that spends a round only when a zombie is hit
Shoot_MissIsFree(c, ln) ==
    CASE c.p.State \in {"playerShooting", "playerReady", "playerUnready"} -> c
      [] c.p.State = "playerReload" -> interruptReload(c)
      [] OTHER ->
           IF c.p.Ammo < 1 THEN interruptReload(c)
           ELSE LET fired == [c EXCEPT !.snd = @ \cup {"soundGunShot.Play"},
                                       !.p.State = "playerShooting"]
                    k == FirstMob(ln)
                IN IF k = 0 THEN fired
                   ELSE [fired EXCEPT !.snd = @ \cup {"soundHit1.Play"},
                                      !.p.Ammo = @ - 1,
                                      !.zs[ln[k].Data] = Hit(@)]

\* Shoot on c = [p, zs, snd], with the objects met on the line of fire
Shoot(c, ln) ==
    CASE c.p.State \in {"playerShooting", "playerReady", "playerUnready"} -> c
      [] c.p.State = "playerReload" -> interruptReload(c)
      [] OTHER ->
           IF c.p.Ammo < 1 THEN interruptReload(c)
           ELSE LET fired == [c EXCEPT !.snd = @ \cup {"soundGunShot.Play"},
                                       !.p.Ammo = @ - 1,
                                       !.p.State = "playerShooting"]
                    k == FirstMob(ln)
                IN IF k = 0 THEN fired
                   ELSE [fired EXCEPT !.snd = @ \cup {"soundHit1.Play"},
                                      !.zs[ln[k].Data] = Hit(@)]

\* Player.Update: what the player's own clip and the movement keys decide
PlayerChoices(p) ==
    CASE p.State = "playerIdle" ->
           {"playerIdle", "playerReady", "playerUnready"}
      [] OTHER -> {"stay", "clipEnd"}

PlayerUpdate(p, choice) ==
    CASE choice = "stay" -> p
      [] choice = "clipEnd" ->
           IF p.State = "playerReload"
           THEN [p EXCEPT !.State = "playerIdle", !.Ammo = MaxAmmo]
           ELSE [p EXCEPT !.State = "playerIdle"]
      [] OTHER -> [p EXCEPT !.State = choice]

\* dogSpeed, the distance the dog moves per update cycle, in tenths of a pixel
dogSpeed == 3

\* math.Cos and math.Sin of an Angle counted in quarter turns
Cos(a) == CASE a % 4 = 0 -> 1 [] a % 4 = 2 -> -1 [] OTHER -> 0
Sin(a) == CASE a % 4 = 1 -> 1 [] a % 4 = 3 -> -1 [] OTHER -> 0

\* Dog.move: the dog moves by the vector unless the Check for a mob or a wall
\* at the new position found one (hit)
move(d, dx, dy, hit) ==
    IF hit THEN d ELSE [d EXCEPT !.X = @ + dx, !.Y = @ + dy]

\* Dog.MoveForward: forward without turning
MoveForward(d, hit) ==
    move(d, Cos(d.Angle) * dogSpeed, Sin(d.Angle) * dogSpeed, hit)

\* Dog.Update: the dog moves forward; its Mode, its Angle and its MainPath
\* are left as they are
DogUpdate(d, hit) == MoveForward(d, hit)

(***************************************************************************)
(* Level map: grid, neighbours, obstacle queries                           *)
(***************************************************************************)
\* gridSize: the size of one tile in pixels
gridSize == 32

\* width and height, in tiles, of the map CreateMap builds
MapW == 4
MapH == 4

\* image.Pt
Pt(x, y) == [X |-> x, Y |-> y]

\* p.Add(o)
Add(p, o) == Pt(p.X + o.X, p.Y + o.Y)

\* CreateMap: h rows of w zeroes, indexed m[y][x]
CreateMap(w, h) == [y \in 0..(h - 1) |-> [x \in 0..(w - 1) |-> 0]]

\* whether m[p.Y][p.X] is an element of the slices
InRange(m, p) == p.Y \in DOMAIN m /\ p.X \in DOMAIN m[p.Y]

\* the outcome of an operation that can index out of range: the run-time
\* panic of the slice expression, or the value
Panic == [panic |-> TRUE]
Val(v) == [panic |-> FALSE, val |-> v]

\* isFreeAt: m[p.Y][p.X] == 0
isFreeAt(m, p) ==
    IF InRange(m, p) THEN Val(m[p.Y][p.X] = 0) ELSE Panic

\* int(f) of a quotient by gridSize: truncation towards zero
ToTile(x) == IF x >= 0 THEN x \div gridSize ELSE -((-x) \div gridSize)

\* isFreeAtCoord on a Coord c in pixels
isFreeAtCoord(m, c) ==
    LET p == Pt(ToTile(c.X), ToTile(c.Y))
    IN IF InRange(m, p) THEN Val(m[p.Y][p.X] = 0) ELSE Panic

\* a SetObstacle that flips the tile
SetObstacle_Flip(m, x, y) ==
    IF InRange(m, Pt(x, y)) THEN Val([m EXCEPT ![y][x] = 1 - @]) ELSE Panic

\* SetObstacle: m[y][x] = 1
SetObstacle(m, x, y) ==
    IF InRange(m, Pt(x, y)) THEN Val([m EXCEPT ![y][x] = 1]) ELSE Panic

offsets == << Pt(0, -1), Pt(1, 0), Pt(0, 1), Pt(-1, 0) >>
offsetsDiag == << Pt(1, -1), Pt(1, 1), Pt(-1, 1), Pt(-1, -1) >>

\* m.isFreeAt(q) && m.isFreeAt(q1) && m.isFreeAt(q2), left to right
DiagFree(m, q, q1, q2) ==
    LET f == isFreeAt(m, q)
        f1 == isFreeAt(m, q1)
        f2 == isFreeAt(m, q2)
    IN IF f.panic THEN Panic
       ELSE IF ~f.val THEN Val(FALSE)
       ELSE IF f1.panic THEN Panic
       ELSE IF ~f1.val THEN Val(FALSE)
       ELSE f2

\* the loop over offsetsDiag from its i-th offset on, appending to acc
RECURSIVE DiagLoop(_, _, _, _)
DiagLoop(m, p, i, acc) ==
    IF i > Len(offsetsDiag) THEN Val(acc)
    ELSE LET o == offsetsDiag[i]
             q == Add(p, o)
             t == DiagFree(m, q, Add(p, Pt(0, o.Y)), Add(p, Pt(o.X, 0)))
         IN IF t.panic THEN Panic
            ELSE DiagLoop(m, p, i + 1, IF t.val THEN Append(acc, q) ELSE acc)

\* the loop over offsets from its i-th offset on, appending to acc
RECURSIVE OrthoLoop(_, _, _, _)
OrthoLoop(m, p, i, acc) ==
    IF i > Len(offsets) THEN Val(acc)
    ELSE LET q == Add(p, offsets[i])
             t == isFreeAt(m, q)
         IN IF t.panic THEN Panic
            ELSE OrthoLoop(m, p, i + 1, IF t.val THEN Append(acc, q) ELSE acc)

\* Neighbours: the diagonal neighbours with a wide enough corridor, then the
\* free orthogonal ones
Neighbours(m, p) ==
    LET d == DiagLoop(m, p, 1, << >>)
    IN IF d.panic THEN Panic ELSE OrthoLoop(m, p, 1, d.val)

(***************************************************************************)
(* Path planner: search, simplification, curve fit                         *)
(***************************************************************************)
\* q.Sub(p)
Sub(q, p) == Pt(q.X - p.X, q.Y - p.Y)

\* the loop of simplifyPath from index i on (1-based), with the direction
\* prev of the last point kept
RECURSIVE SimplifyLoop(_, _, _, _)
SimplifyLoop(path, i, prev, acc) ==
    IF i > Len(path) THEN acc
    ELSE IF i < Len(path)
         THEN LET next == Sub(path[i + 1], path[i])
              IN IF prev = next
                 THEN SimplifyLoop(path, i + 1, prev, acc)
                 ELSE SimplifyLoop(path, i + 1, next, Append(acc, path[i]))
         ELSE SimplifyLoop(path, i + 1, prev, Append(acc, path[i]))

\* a loop that compares the next step with the step from the last point kept
RECURSIVE SimplifyLoop_FromKept(_, _, _)
SimplifyLoop_FromKept(path, i, acc) ==
    IF i > Len(path) THEN acc
    ELSE IF i < Len(path)
         THEN LET next == Sub(path[i + 1], path[i])
                  prev == IF acc = << >> THEN Pt(0, 0)
                          ELSE Sub(path[i], acc[Len(acc)])
              IN IF prev = next
                 THEN SimplifyLoop_FromKept(path, i + 1, acc)
                 ELSE SimplifyLoop_FromKept(path, i + 1, Append(acc, path[i]))
         ELSE SimplifyLoop_FromKept(path, i + 1, Append(acc, path[i]))

simplifyPath_FromKept(path) == SimplifyLoop_FromKept(path, 1, << >>)

\* a simplifyPath whose prev starts as the first step of the path
simplifyPath_FirstStepSeen(path) ==
    SimplifyLoop(path, 1, IF Len(path) > 1 THEN Sub(path[2], path[1]) ELSE Pt(0, 0), << >>)

\* simplifyPath removes the points that continue the direction of the step
\* before them
simplifyPath(path) == SimplifyLoop(path, 1, Pt(0, 0), << >>)

\* math.Sqrt of a sum of two squares, in thousandths
Sqrt1000(n) ==
    CASE n = 0 -> 0 [] n = 1 -> 1000 [] n = 2 -> 1414 [] n = 4 -> 2000
      [] n = 5 -> 2236 [] n = 8 -> 2828 [] n = 9 -> 3000 [] n = 10 -> 3162
      [] n = 13 -> 3606 [] n = 18 -> 4243
      [] OTHER -> CHOOSE r \in 0..(1000 * n) :
                    r * r <= 1000000 * n /\ (r + 1) * (r + 1) > 1000000 * n

\* distance: the Euclidean distance between two tiles, in thousandths
distance(p, q) ==
    LET d == Sub(q, p) IN Sqrt1000(d.X * d.X + d.Y * d.Y)

\* Path.Cost: the sum of the distances of the steps of a path
RECURSIVE Cost(_)
Cost(path) ==
    IF Len(path) < 2 THEN 0
    ELSE distance(path[1], path[2]) + Cost(Tail(path))

\* float64 sums that are equal as reals may differ in their last bits: two
\* priorities closer than this are popped in either order
PriorityTie == 8

\* the paths the priority queue may yield next
Least(pq) ==
    {e \in pq : \A o \in pq : e.f <= o.f + PriorityTie}

\* the range of a sequence
Range(seq) == {seq[i] : i \in 1..Len(seq)}

\* astar.FindPath from a queue pq of [path, f] and the closed set: every
\* outcome the search can end with, Val(<< >>) standing for the nil path
RECURSIVE Search(_, _, _, _)
Search(m, dest, pq, closed) ==
    IF pq = {} THEN {Val(<< >>)}
    ELSE UNION {
           LET rest == pq \ {e}
               n == e.path[Len(e.path)]
           IN IF n \in closed THEN Search(m, dest, rest, closed)
              ELSE IF n = dest THEN {Val(e.path)}
              ELSE LET nbs == Neighbours(m, n)
                   IN IF nbs.panic THEN {Panic}
                      ELSE Search(m, dest,
                                  rest \cup {[path |-> Append(e.path, nb),
                                              f |-> Cost(Append(e.path, nb))
                                                      + distance(nb, dest)]
                                               : nb \in Range(nbs.val)},
                                  closed \cup {n})
           : e \in Least(pq)}

\* astar.FindPath(m, startTile, destTile, distance, distance)
AstarFindPath(m, startTile, destTile) ==
    Search(m, destTile, {[path |-> << startTile >>, f |-> 0]}, {})

\* Coord of the upper left corner of a tile
TileCorner(p) == [X |-> p.X * gridSize, Y |-> p.Y * gridSize]

\* Coord of the centre of a tile
TileCentre(p) == [X |-> p.X * gridSize + gridSize \div 2,
                  Y |-> p.Y * gridSize + gridSize \div 2]

\* FindPath: every outcome of a call, the path in pixels or the panic
FindPath(m, start, dest) ==
    LET startTile == Pt(ToTile(start.X), ToTile(start.Y))
        destTile == Pt(ToTile(dest.X), ToTile(dest.Y))
    IN {IF a.panic THEN Panic
        ELSE LET sp == simplifyPath(a.val)
             IN Val([i \in 1..Len(sp) |-> TileCentre(sp[i])])
          : a \in AstarFindPath(m, startTile, destTile)}

\* the resolution NewGameScreen asks for: samples per curve
Resolution == 4

\* beziercp.GetControlPointsF on n knots: one curve per pair of consecutive
\* knots when a spline exists (n >= 3); on fewer knots the library, which is
\* not part of this repository, may panic or return any of the curves
ControlPoints(n) ==
    IF n >= 3 THEN {Val(n - 1)}
    ELSE {Panic} \cup {Val(k) : k \in 0..(IF n = 2 THEN 1 ELSE 0)}

\* curve.Point(i / resolution) of the k-th curve: its first control point,
\* the k-th knot, at i = 0, and a point inside the curve afterwards
CurvePoint(pathPoints, k, i) ==
    IF i = 0 THEN pathPoints[k] ELSE [curve |-> k, t |-> i]

\* GetBezierPath: every outcome, the sampled curves or the panic
GetBezierPath(pathPoints, resolution) ==
    {IF cps.panic THEN Panic
     ELSE Val([j \in 1..(cps.val * resolution) |->
                 CurvePoint(pathPoints, (j - 1) \div resolution + 1,
                            (j - 1) % resolution)])
       : cps \in ControlPoints(Len(pathPoints))}

\* GetBezierPathFromCoords
GetBezierPathFromCoords(pathPoints, resolution) ==
    IF Len(pathPoints) < 3 THEN {Val(pathPoints)}
    ELSE GetBezierPath(pathPoints, resolution)

\* the dog's path of NewGameScreen: the dog's position, then the centres of
\* the tiles of the Path property of the Dog entity
DogPath(position, pathArray) ==
    GetBezierPath(<< position >> \o [i \in 1..Len(pathArray) |-> TileCentre(pathArray[i])],
                  Resolution)

\* position of the drawn Dog entity, in pixels
DogStart == [X |-> 40, Y |-> 40]

\* updates the dog can move forward from DogStart before it meets the wall
MaxWalk == 5

\* the wall ahead of DogStart, in tenths of a pixel
DogWall == DogStart.X * 10 + MaxWalk * dogSpeed

\* the Dog of NewGameScreen, at position (in tenths of a pixel), with its path
NewDog(position, dogPath) ==
    [Mode |-> dogWalking, X |-> position.X, Y |-> position.Y, Angle |-> 0,
     MainPath |-> [Points |-> dogPath, NextPoint |-> 0]]

\* a dog drawn against the wall, with a path through two tiles
WalledDog ==
    NewDog([X |-> DogWall, Y |-> DogStart.Y * 10],
           (CHOOSE r \in DogPath(DogStart, << Pt(1, 1), Pt(2, 2) >>) : ~r.panic).val)

\* Check(dx, dy, tagMob, tagWall) of the dog's object is not nil: a mob is
\* in the way, or the wall is
DogCheck(d, dx, mob) == mob \/ d.X + dx > DogWall

(***************************************************************************)
(* State                                                                   *)
(***************************************************************************)
VARIABLES
    pc,            \* position inside GameScreen.Update (or inside Boss.Update)
    keyR,          \* inpututil.IsKeyJustPressed(ebiten.KeyR) of this tick
    click,         \* clicked() of this tick
    line,          \* objects on the line of fire of a traced shot
    atShoot,       \* g.Player as it was when this tick called Shoot
    Player,        \* g.Player: State, Ammo
    Zombies,       \* the *Zombie of every zombie, the boss's inner one included
    Boss,          \* the Boss fields: Daemon, State, Frame, Dead
    prevState,     \* Boss.State as it was when this tick called Boss.Update
    err,           \* error returned by the update operation that ran last
    BossDefeated,  \* g.BossDefeated
    Dog,           \* g.Dog: Mode, position of its Object, Angle, MainPath
    dogOverlap,    \* a zombie overlapped the dog when its collision check ran
    met,           \* what the player and the dog met at the end of the last tick
    newGame,       \* the NewGame goroutine of main.go: its position, g.Sprites
    SpawnPoints,   \* g.SpawnPoints: the spawn point of the normal zombies
    Entities,      \* ids of the Checkpoint entities of the level
    Checkpoint,    \* g.Checkpoint
    Sounds,        \* calls made on g.Sounds / g.Voices players by the last phase
    returned,      \* GameState returned by the last GameScreen.Update
    LevelMap,      \* g.LevelMap
    call,          \* the probed operation last called, with its arguments
    result         \* what that call returned, or its panic

vars == << pc, keyR, click, line, atShoot, Player, Zombies, Boss, prevState, err, BossDefeated,
           Dog, dogOverlap, met, newGame, SpawnPoints, Entities, Checkpoint, Sounds, returned,
           LevelMap, call, result >>

plannerVars == << LevelMap, call, result >>

\* nothing met: no zombie on the player, no checkpoint (cp = 0), no End
\* entity, no zombie on the dog
NoneMet == [player |-> FALSE, cp |-> 0, end |-> FALSE, dog |-> FALSE]

\* NewGame has returned: g.Sprites holds the player's sprite, g.Player is set
\* and its object is in the space
Returned == [at |-> 5, Sprites |-> "player", Player |-> "&Player"]

\* no planner call yet
NoProbe == [op |-> "none"]

\* the map after SetObstacle on every tile of obstacles
MapWith(obstacles) ==
    [y \in 0..(MapH - 1) |->
       [x \in 0..(MapW - 1) |-> IF Pt(x, y) \in obstacles THEN 1 ELSE 0]]

Tiles == {Pt(x, y) : x \in 0..(MapW - 1), y \in 0..(MapH - 1)}
BorderTiles == {t \in Tiles : t.X \in {0, MapW - 1} \/ t.Y \in {0, MapH - 1}}
InnerTiles == Tiles \ BorderTiles

\* a level closed by a ring of wall tiles
WalledMap == MapWith(BorderTiles)

NoCall == [State |-> "none", Ammo |-> -1]

NewZombie(hits, speed) ==
    [HitToDie |-> hits, State |-> zombieIdle, Speed |-> speed, InSpace |-> TRUE]

\* the state NewGameScreen leaves, for a level whose spawn points are not
\* continuous and that holds no checkpoint
Init ==
    /\ pc = "key"
    /\ keyR = FALSE
    /\ click = FALSE
    /\ line = << >>
    /\ atShoot = NoCall
    /\ Player = [State |-> "playerIdle", Ammo |-> MaxAmmo]
    /\ Zombies = [i \in ZombieIds |->
                    IF i = BossId THEN NewZombie(BossHitToDie, zombieBigSpeed)
                    ELSE NewZombie(NormalHitToDie, "zombieSpeed")]
    /\ Boss = [Daemon |-> FALSE, State |-> "bossIdle1", Frame |-> 0, Dead |-> FALSE]
    /\ prevState = "none"
    /\ err = nil
    /\ BossDefeated = FALSE
    /\ Dog = WalledDog
    /\ dogOverlap = FALSE
    /\ met = NoneMet
    /\ newGame = Returned
    /\ SpawnPoints = [Continuous |-> FALSE, InitialCount |-> Cardinality(NormalIds),
                      Died |-> 0, Respawned |-> 0]
    /\ Entities = {}
    /\ Checkpoint = 0
    /\ Sounds = {}
    /\ returned = gameRunning
    /\ LevelMap = WalledMap
    /\ call = NoProbe
    /\ result = NoProbe

(***************************************************************************)
(* GameScreen.Update, in its four phases                                   *)
(***************************************************************************)
\* an order of the phases in which the agents update before the shot
NextPhase_AgentsFirst(p) ==
    CASE p = "key" -> "agents"
      [] p = "agents" -> "shoot"
      [] p = "shoot" -> "collide"
      [] OTHER -> "key"

\* the order of the phases of GameScreen.Update
NextPhase(p) ==
    CASE p = "key" -> "shoot"
      [] p = "shoot" -> "agents"
      [] p = "agents" -> "collide"
      [] OTHER -> "key"

\* the game loop updates the game screen only while the game is running: a
\* returned gameOver or gameWon hands control to another screen
ScreenActive == returned = gameRunning

\* g.Tick++ and the R key handler
KeyStep ==
    /\ pc = "key"
    /\ ScreenActive
    /\ \E r \in BOOLEAN :
         LET c == ReloadKey([p |-> Player, zs |-> Zombies, snd |-> {}], r)
         IN /\ keyR' = r
            /\ Player' = c.p
            /\ Sounds' = c.snd
    /\ click' = FALSE
    /\ dogOverlap' = FALSE
    /\ met' = NoneMet
    /\ UNCHANGED newGame
    /\ pc' = NextPhase(pc)
    /\ UNCHANGED << line, atShoot, Zombies, Boss, prevState, err, BossDefeated, Dog,
                    SpawnPoints, Entities, Checkpoint, returned >>
    /\ UNCHANGED plannerVars

\* the gun shooting handler
ShootStep ==
    /\ pc = "shoot"
    /\ \E b \in BOOLEAN :
         /\ click' = b
         /\ IF b
            THEN \E ln \in Lines(Zombies) :
                   LET c == Shoot([p |-> Player, zs |-> Zombies, snd |-> {}], ln)
                   IN /\ Player' = c.p
                      /\ Zombies' = c.zs
                      /\ Sounds' = c.snd
                      /\ atShoot' = Player
            ELSE Sounds' = {} /\ UNCHANGED << Player, Zombies, atShoot >>
    /\ pc' = NextPhase(pc)
    /\ UNCHANGED << keyR, line, Boss, prevState, err, BossDefeated, Dog, dogOverlap, met, newGame,
                    SpawnPoints, Entities, Checkpoint, returned >>
    /\ UNCHANGED plannerVars

\* Zombies.Update: every zombie's Update, the boss's through Boss.Update
ZombiesUpdate(w, zs, choice) ==
    LET wb == BossUpdate(w, choice[BossId])
    IN [wb EXCEPT !.zs = [i \in ZombieIds |->
                            IF i = BossId THEN wb.z ELSE ZombieUpdate(zs[i], choice[i])]]

\* the zombies of the spawn point that are registered in the space
Owned(zs) == {i \in DOMAIN zs \ {BossId} : zs[i].InSpace}

\* the zombies of the spawn point that died between zs and after
NewlyDead(zs, after) == Owned(zs) \ Owned(after)

\* a spawn point that spawns a zombie on every tick while it is continuous
SpawnPointsUpdate_EveryTick(sp, zs) ==
    LET free == (DOMAIN zs \ {BossId}) \ Owned(zs)
    IN IF sp.Continuous /\ free # {}
       THEN LET i == CHOOSE j \in free : \A k \in free : j <= k
            IN [sp |-> [sp EXCEPT !.Respawned = @ + 1],
                zs |-> [zs EXCEPT ![i] = NewZombie(NormalHitToDie, "zombieSpeed")]]
       ELSE [sp |-> sp, zs |-> zs]

\* SpawnPoints.Update: a continuous spawn point that owns fewer zombies than
\* its InitialCount spawns one replacement; Respawned counts them
SpawnPointsUpdate(sp, zs) ==
    LET free == (DOMAIN zs \ {BossId}) \ Owned(zs)
    IN IF sp.Continuous /\ Cardinality(Owned(zs)) < sp.InitialCount /\ free # {}
       THEN LET i == CHOOSE j \in free : \A k \in free : j <= k
            IN [sp |-> [sp EXCEPT !.Respawned = @ + 1],
                zs |-> [zs EXCEPT ![i] = NewZombie(NormalHitToDie, "zombieSpeed")]]
       ELSE [sp |-> sp, zs |-> zs]

\* Player.Update, Dog.Update, Zombies.Update, SpawnPoints.Update
AgentsStep ==
    /\ pc = "agents"
    /\ \E pch \in PlayerChoices(Player) : Player' = PlayerUpdate(Player, pch)
    /\ \E mob \in BOOLEAN :
         Dog' = DogUpdate(Dog, DogCheck(Dog, Cos(Dog.Angle) * dogSpeed, mob))
    /\ \E choice \in [ZombieIds -> ZombieChoices] :
         LET w == ZombiesUpdate([b |-> Boss, z |-> Zombies[BossId],
                                 defeated |-> BossDefeated, snd |-> {},
                                 zs |-> Zombies], Zombies, choice)
             sp == SpawnPointsUpdate(
                     [SpawnPoints EXCEPT
                        !.Died = @ + Cardinality(NewlyDead(Zombies, w.zs))], w.zs)
         IN /\ Boss' = w.b
            /\ Zombies' = sp.zs
            /\ SpawnPoints' = sp.sp
            /\ BossDefeated' = w.defeated
            /\ Sounds' = w.snd
    /\ atShoot' = NoCall
    /\ prevState' = Boss.State
    /\ err' = BossUpdateErr(Boss)
    /\ pc' = NextPhase(pc)
    /\ UNCHANGED << keyR, click, line, dogOverlap, met, newGame, Entities, Checkpoint, returned >>
    /\ UNCHANGED plannerVars

\* the overlap flags of the candidates a Check(0, 0, tagMob) returns, in its
\* order: none when no zombie is registered in the space
NearMobs(zs) ==
    LET n == Cardinality({i \in ZombieIds : zs[i].InSpace})
        m == IF n < MaxNear THEN n ELSE MaxNear
    IN UNION {[1..k -> BOOLEAN] : k \in 0..m}

musicStop == {"soundMusicBackground.Pause", "soundMusicBackground.Rewind"}

\* the dog's collision response: only collision.Objects[0] is tested
DogCollision(d, near) ==
    IF Len(near) > 0 /\ near[1] THEN [d EXCEPT !.Mode = dogDead] ELSE d

\* a collision response that takes the id of any overlapped checkpoint
Collide_AnyCheckpoint(in) ==
    IF in.pmob THEN
        /\ Sounds' = musicStop \cup {"soundPlayerDies.Play"}
        /\ returned' = gameOver
        /\ UNCHANGED << Checkpoint, Dog >>
    ELSE
        LET passed == in.cp # 0 /\ Checkpoint # in.cp
            voices == IF passed THEN {"voiceCheckpoint.Play"} ELSE {}
        IN /\ Checkpoint' = IF passed THEN in.cp ELSE Checkpoint
           /\ IF in.end THEN
                 /\ returned' = gameWon
                 /\ Sounds' = voices
                 /\ UNCHANGED Dog
              ELSE
                 LET dog == DogCollision(Dog, in.near)
                 IN /\ Dog' = dog
                    /\ IF dog.Mode = dogDead
                       THEN /\ returned' = gameOver
                            /\ Sounds' = voices \cup musicStop
                       ELSE /\ returned' = gameRunning
                            /\ Sounds' = voices

\* collision response; in = [pmob: the first mob near the player overlaps and
\* intersects it, cp: id of the overlapped checkpoint or 0, end: the player
\* overlaps the End entity, near: overlap flags of the mobs near the dog]
Collide(in) ==
    IF in.pmob THEN
        /\ Sounds' = musicStop \cup {"soundPlayerDies.Play"}
        /\ returned' = gameOver
        /\ UNCHANGED << Checkpoint, Dog >>
    ELSE
        LET passed == Checkpoint < in.cp
            voices == IF passed THEN {"voiceCheckpoint.Play"} ELSE {}
        IN /\ Checkpoint' = IF passed THEN in.cp ELSE Checkpoint
           /\ IF in.end THEN
                 /\ returned' = gameWon
                 /\ Sounds' = voices
                 /\ UNCHANGED Dog
              ELSE
                 LET dog == DogCollision(Dog, in.near)
                 IN /\ Dog' = dog
                    /\ IF dog.Mode = dogDead
                       THEN /\ returned' = gameOver
                            /\ Sounds' = voices \cup musicStop
                       ELSE /\ returned' = gameRunning
                            /\ Sounds' = voices

CollideStep ==
    /\ pc = "collide"
    /\ \E pmob \in (IF \E i \in ZombieIds : Zombies[i].InSpace THEN BOOLEAN ELSE {FALSE}),
          cp \in {0} \cup Entities, end \in BOOLEAN, near \in NearMobs(Zombies) :
         /\ Collide([pmob |-> pmob, cp |-> cp, end |-> end, near |-> near])
         /\ dogOverlap' = (~pmob /\ ~end /\ \E k \in 1..Len(near) : near[k])
         /\ met' = [player |-> pmob, cp |-> cp, end |-> end,
                    dog |-> \E k \in 1..Len(near) : near[k]]
         /\ UNCHANGED newGame
    /\ pc' = NextPhase(pc)
    /\ keyR' = FALSE
    /\ click' = FALSE
    /\ prevState' = "none"
    /\ err' = nil
    /\ UNCHANGED << line, atShoot, Player, Zombies, Boss, BossDefeated, SpawnPoints,
                    Entities >>
    /\ UNCHANGED plannerVars

Next == KeyStep \/ ShootStep \/ AgentsStep \/ CollideStep

Spec == Init /\ [][Next]_vars

(***************************************************************************)
(* A traced shot: Shoot applied to a drawn game state and line of fire     *)
(***************************************************************************)
\* the (State, Ammo) pairs of the player at a call of Shoot: a shot leaves
\* less than a full magazine
TracedPlayers ==
    {q \in [State : PlayerStates, Ammo : 0..MaxAmmo] :
        q.State = "playerShooting" => q.Ammo < MaxAmmo}

\* a boss in phase 1 above the death1 bucket, and normal zombies alive or dead
TracedZombies ==
    {zs \in [ZombieIds -> [HitToDie : 0..BossHitToDie,
                           State : ZombieStates,
                           Speed : {zombieBigSpeed, "zombieSpeed"},
                           InSpace : BOOLEAN]] :
        /\ zs[BossId].HitToDie >= 3
        /\ zs[BossId].State # zombieDead
        /\ zs[BossId].InSpace
        /\ zs[BossId].Speed = zombieBigSpeed
        /\ \A i \in NormalIds :
             /\ zs[i].Speed = "zombieSpeed"
             /\ \/ /\ zs[i].InSpace
                   /\ zs[i].HitToDie = NormalHitToDie
                   /\ zs[i].State \in {zombieIdle, zombieWalking}
                \/ /\ ~zs[i].InSpace
                   /\ zs[i].HitToDie = 0
                   /\ zs[i].State = zombieDead}

InitShoot ==
    /\ pc = "shoot"
    /\ keyR = FALSE
    /\ click = FALSE
    /\ atShoot = NoCall
    /\ Player \in TracedPlayers
    /\ Zombies \in TracedZombies
    /\ line \in Lines(Zombies)
    /\ Boss = [Daemon |-> FALSE,
               State |-> Dispatch(FALSE, Zombies[BossId].HitToDie,
                                  Zombies[BossId].State, "bossIdle1"),
               Frame |-> 0, Dead |-> FALSE]
    /\ prevState = "none"
    /\ err = nil
    /\ BossDefeated = FALSE
    /\ Dog = WalledDog
    /\ dogOverlap = FALSE
    /\ met = NoneMet
    /\ newGame = Returned
    /\ SpawnPoints = [Continuous |-> FALSE, InitialCount |-> Cardinality(NormalIds),
                      Died |-> 0, Respawned |-> 0]
    /\ Entities = {}
    /\ Checkpoint = 0
    /\ Sounds = {}
    /\ returned = gameRunning
    /\ LevelMap = WalledMap
    /\ call = NoProbe
    /\ result = NoProbe

\* the gun shooting handler on a click, along the drawn line of fire
TracedShoot ==
    /\ pc = "shoot"
    /\ LET c == Shoot([p |-> Player, zs |-> Zombies, snd |-> {}], line)
       IN /\ Player' = c.p
          /\ Zombies' = c.zs
          /\ Sounds' = c.snd
    /\ click' = TRUE
    /\ atShoot' = Player
    /\ pc' = NextPhase(pc)
    /\ UNCHANGED << keyR, line, Boss, prevState, err, BossDefeated, Dog, dogOverlap, met, newGame,
                    SpawnPoints, Entities, Checkpoint, returned >>
    /\ UNCHANGED plannerVars

SpecShoot == InitShoot /\ [][TracedShoot]_vars

(***************************************************************************)
(* A shot along a line of fire on which the zombies stand at drawn         *)
(* distances from the player                                               *)
(***************************************************************************)
\* distances along the line, in steps; a cell of the space spans CellSpan
\* steps, and the range of fire ends after FireRange steps
MaxDist == 5
CellSpan == 2
FireRange == 3

\* the cell of the space that holds distance d of the line
CellOf(d) == d \div CellSpan

\* the orders in which the zombies can be registered in a cell
RegisterOrders ==
    {o \in [1..Cardinality(ZombieIds) -> ZombieIds] :
       \A i, j \in DOMAIN o : i # j => o[i] # o[j]}

\* c.Objects of cell k: the zombies of the space standing in it, in the
\* order of their registration
CellObjects(k, zs, at, order) ==
    LET ids == SelectSeq(order, LAMBDA i : zs[i].InSpace /\ CellOf(at[i]) = k)
    IN [n \in 1..Len(ids) |-> [tag |-> tagMob, Data |-> ids[n]]]

\* the objects the two loops of Shoot visit: the cells of CellsInLine from
\* cell k to the cell where the range ends, each with its objects
RECURSIVE CellsInLine(_, _, _, _)
CellsInLine(k, zs, at, order) ==
    IF k > CellOf(FireRange) THEN << >>
    ELSE CellObjects(k, zs, at, order) \o CellsInLine(k + 1, zs, at, order)

InitFire ==
    /\ pc = "fire"
    /\ keyR = FALSE
    /\ click = FALSE
    /\ line = << >>
    /\ atShoot = NoCall
    /\ Player \in TracedPlayers
    /\ Zombies = [i \in ZombieIds |->
                    IF i = BossId THEN NewZombie(BossHitToDie, zombieBigSpeed)
                    ELSE NewZombie(NormalHitToDie, "zombieSpeed")]
    /\ Boss = [Daemon |-> FALSE, State |-> "bossIdle1", Frame |-> 0, Dead |-> FALSE]
    /\ prevState = "none"
    /\ err = nil
    /\ BossDefeated = FALSE
    /\ Dog = WalledDog
    /\ dogOverlap = FALSE
    /\ met = NoneMet
    /\ newGame = Returned
    /\ SpawnPoints = [Continuous |-> FALSE, InitialCount |-> Cardinality(NormalIds),
                      Died |-> 0, Respawned |-> 0]
    /\ Entities = {}
    /\ Checkpoint = 0
    /\ Sounds = {}
    /\ returned = gameRunning
    /\ LevelMap = WalledMap
    /\ \E at \in [ZombieIds -> 0..MaxDist] : call = [op |-> "none", at |-> at]
    /\ result = NoProbe

\* Shoot on a click, with the zombies at the distances call.at; result is
\* the zombie the shot hit, -1 when it hit none
FireStep ==
    /\ pc = "fire"
    /\ \E order \in RegisterOrders :
         LET ln == CellsInLine(0, Zombies, call.at, order)
             c == Shoot([p |-> Player, zs |-> Zombies, snd |-> {}], ln)
         IN /\ line' = ln
            /\ Player' = c.p
            /\ Zombies' = c.zs
            /\ Sounds' = c.snd
            /\ result' = Val(IF c.zs = Zombies THEN -1 ELSE ln[FirstMob(ln)].Data)
    /\ call' = [op |-> "Shoot", at |-> call.at]
    /\ click' = TRUE
    /\ atShoot' = Player
    /\ pc' = "fired"
    /\ UNCHANGED << keyR, Boss, prevState, err, BossDefeated, Dog, dogOverlap, met, newGame,
                    SpawnPoints, Entities, Checkpoint, returned, LevelMap >>

SpecFire == InitFire /\ [][FireStep]_vars

\* every player state at a call of Shoot in the game is a traced one
TracedPlayersCover == pc = "shoot" => Player \in TracedPlayers

(***************************************************************************)
(* The boss dispatch alone: the state recompute of Boss.Update applied to  *)
(* a drawn (Daemon, HitToDie, base state, prior display state)             *)
(***************************************************************************)
InitDispatch ==
    /\ pc = "dispatch"
    /\ keyR = FALSE
    /\ click = FALSE
    /\ line = << >>
    /\ atShoot = NoCall
    /\ Player = [State |-> "playerIdle", Ammo |-> MaxAmmo]
    /\ \E h \in 0..(BossHitToDie + 1), zst \in ZombieStates :
         Zombies = [i \in ZombieIds |->
                      IF i = BossId
                      THEN [NewZombie(h, zombieBigSpeed) EXCEPT !.State = zst]
                      ELSE NewZombie(NormalHitToDie, "zombieSpeed")]
    /\ Boss \in [Daemon : BOOLEAN, State : BossStates, Frame : {0}, Dead : {FALSE}]
    /\ prevState = "none"
    /\ err = nil
    /\ BossDefeated = FALSE
    /\ Dog = WalledDog
    /\ dogOverlap = FALSE
    /\ met = NoneMet
    /\ newGame = Returned
    /\ SpawnPoints = [Continuous |-> FALSE, InitialCount |-> Cardinality(NormalIds),
                      Died |-> 0, Respawned |-> 0]
    /\ Entities = {}
    /\ Checkpoint = 0
    /\ Sounds = {}
    /\ returned = gameRunning
    /\ LevelMap = WalledMap
    /\ call = NoProbe
    /\ result = NoProbe

\* the two-level switch of Boss.Update, up to the call of Animate
DispatchStep ==
    /\ pc = "dispatch"
    /\ Boss' = [Boss EXCEPT !.State = Dispatch(Boss.Daemon, Zombies[BossId].HitToDie,
                                                Zombies[BossId].State, Boss.State)]
    /\ prevState' = Boss.State
    /\ pc' = "animate"
    /\ UNCHANGED << keyR, click, line, atShoot, Player, Zombies, err, BossDefeated,
                    Dog, dogOverlap, met, newGame, SpawnPoints, Entities, Checkpoint, Sounds,
                    returned >>
    /\ UNCHANGED plannerVars

SpecDispatch == InitDispatch /\ [][DispatchStep]_vars

(***************************************************************************)
(* The boss's life alone: of every tick of GameScreen.Update, the shot     *)
(* that may hit the boss, Boss.Update, and the state the tick returns      *)
(***************************************************************************)
InitBoss ==
    /\ pc = "shot"
    /\ keyR = FALSE
    /\ click = FALSE
    /\ line = << >>
    /\ atShoot = NoCall
    /\ Player = [State |-> "playerIdle", Ammo |-> MaxAmmo]
    /\ Zombies = [i \in ZombieIds |->
                    IF i = BossId THEN NewZombie(BossHitToDie, zombieBigSpeed)
                    ELSE NewZombie(NormalHitToDie, "zombieSpeed")]
    /\ Boss = [Daemon |-> FALSE, State |-> "bossIdle1", Frame |-> 0, Dead |-> FALSE]
    /\ prevState = "none"
    /\ err = nil
    /\ BossDefeated = FALSE
    /\ Dog = WalledDog
    /\ dogOverlap = FALSE
    /\ met = NoneMet
    /\ newGame = Returned
    /\ SpawnPoints = [Continuous |-> FALSE, InitialCount |-> Cardinality(NormalIds),
                      Died |-> 0, Respawned |-> 0]
    /\ Entities = {}
    /\ Checkpoint = 0
    /\ Sounds = {}
    /\ returned = gameRunning
    /\ LevelMap = WalledMap
    /\ call = NoProbe
    /\ result = NoProbe

\* the shot of this tick, when there is one: it hits the boss when the boss
\* is the first mob on the line of fire
BossShotStep ==
    /\ pc = "shot"
    /\ ScreenActive
    /\ \E b \in BOOLEAN :
         /\ click' = b
         /\ Zombies' = IF b /\ Zombies[BossId].InSpace
                       THEN [Zombies EXCEPT ![BossId] = Hit(@)]
                       ELSE Zombies
    /\ pc' = "update"
    /\ UNCHANGED << keyR, line, atShoot, Player, Boss, prevState, err, BossDefeated, Dog,
                    dogOverlap, met, newGame, SpawnPoints, Entities, Checkpoint, Sounds,
                    returned >>
    /\ UNCHANGED plannerVars

\* Boss.Update of this tick
BossUpdateStep ==
    /\ pc = "update"
    /\ \E choice \in ZombieChoices :
         LET w == BossUpdate([b |-> Boss, z |-> Zombies[BossId],
                              defeated |-> BossDefeated, snd |-> {}], choice)
         IN /\ Boss' = w.b
            /\ Zombies' = [Zombies EXCEPT ![BossId] = w.z]
            /\ BossDefeated' = w.defeated
            /\ Sounds' = w.snd
    /\ prevState' = Boss.State
    /\ err' = BossUpdateErr(Boss)
    /\ pc' = "return"
    /\ UNCHANGED << keyR, click, line, atShoot, Player, Dog, dogOverlap, met, newGame,
                    SpawnPoints, Entities, Checkpoint, returned >>
    /\ UNCHANGED plannerVars

\* the GameState this tick returns: the collision checks decide it
BossReturnStep ==
    /\ pc = "return"
    /\ returned' \in {gameRunning, gameOver, gameWon}
    /\ pc' = "shot"
    /\ click' = FALSE
    /\ prevState' = "none"
    /\ err' = nil
    /\ Sounds' = {}
    /\ UNCHANGED << keyR, line, atShoot, Player, Zombies, Boss, BossDefeated, Dog, dogOverlap,
                    met, newGame, SpawnPoints, Entities, Checkpoint >>
    /\ UNCHANGED plannerVars

\* the game loop calls GameScreen.Update on every tick for as long as the
\* screen is active, and an Update that has started runs to its return
SpecBoss ==
    /\ InitBoss
    /\ [][BossShotStep \/ BossUpdateStep \/ BossReturnStep]_vars
    /\ WF_vars(BossShotStep \/ BossUpdateStep \/ BossReturnStep)

(***************************************************************************)
(* The level map alone: one grid operation applied to a drawn map          *)
(***************************************************************************)
\* number of tiles SetObstacle was called on inside the ring of the border
MaxObstacles == 2

\* how far outside the map the drawn tiles and pixels lie
Outside == 1

\* the game objects as NewGameScreen leaves them
GameLoaded ==
    /\ keyR = FALSE
    /\ click = FALSE
    /\ line = << >>
    /\ atShoot = NoCall
    /\ Player = [State |-> "playerIdle", Ammo |-> MaxAmmo]
    /\ Zombies = [i \in ZombieIds |->
                    IF i = BossId THEN NewZombie(BossHitToDie, zombieBigSpeed)
                    ELSE NewZombie(NormalHitToDie, "zombieSpeed")]
    /\ Boss = [Daemon |-> FALSE, State |-> "bossIdle1", Frame |-> 0, Dead |-> FALSE]
    /\ prevState = "none"
    /\ err = nil
    /\ BossDefeated = FALSE
    /\ Dog = WalledDog
    /\ dogOverlap = FALSE
    /\ met = NoneMet
    /\ newGame = Returned
    /\ SpawnPoints = [Continuous |-> FALSE, InitialCount |-> Cardinality(NormalIds),
                      Died |-> 0, Respawned |-> 0]
    /\ Entities = {}
    /\ Checkpoint = 0
    /\ Sounds = {}
    /\ returned = gameRunning

gameVars == << keyR, click, line, atShoot, Player, Zombies, Boss, prevState, err,
               BossDefeated, Dog, dogOverlap, met, newGame, SpawnPoints, Entities, Checkpoint,
               Sounds, returned >>

\* the maps of a level, with or without a ring of wall tiles on the border,
\* and up to MaxObstacles wall tiles inside
LevelMaps ==
    {MapWith(ring \cup inner) :
       ring \in {{}, BorderTiles},
       inner \in {o \in SUBSET InnerTiles : Cardinality(o) <= MaxObstacles}}

\* tiles of the map and of the ring around it
ProbeTiles == {Pt(x, y) : x \in (0 - Outside)..(MapW - 1 + Outside),
                          y \in (0 - Outside)..(MapH - 1 + Outside)}

\* pixel coordinates: the first and the last pixel of every such tile
ProbePixels ==
    {t * gridSize + d : t \in (0 - Outside)..(MapW - 1 + Outside),
                        d \in {0, gridSize - 1}}

ProbeCoords == {[X |-> x, Y |-> y] : x \in ProbePixels, y \in {5, 0 - 5, 0 - 37}}

InitMap ==
    /\ pc = "map"
    /\ LevelMap \in LevelMaps
    /\ call = NoProbe
    /\ result = NoProbe
    /\ GameLoaded

NeighboursStep ==
    /\ pc = "map"
    /\ \E p \in ProbeTiles :
         /\ call' = [op |-> "Neighbours", p |-> p]
         /\ result' = Neighbours(LevelMap, p)
    /\ pc' = "mapped"
    /\ UNCHANGED << LevelMap, gameVars >>

isFreeAtStep ==
    /\ pc = "map"
    /\ \E p \in ProbeTiles :
         /\ call' = [op |-> "isFreeAt", p |-> p]
         /\ result' = isFreeAt(LevelMap, p)
    /\ pc' = "mapped"
    /\ UNCHANGED << LevelMap, gameVars >>

isFreeAtCoordStep ==
    /\ pc = "map"
    /\ \E c \in ProbeCoords :
         /\ call' = [op |-> "isFreeAtCoord", c |-> c]
         /\ result' = isFreeAtCoord(LevelMap, c)
    /\ pc' = "mapped"
    /\ UNCHANGED << LevelMap, gameVars >>

SetObstacleStep ==
    /\ pc = "map"
    /\ \E p \in ProbeTiles :
         LET r == SetObstacle(LevelMap, p.X, p.Y)
         IN /\ call' = [op |-> "SetObstacle", p |-> p]
            /\ result' = IF r.panic THEN Panic ELSE Val(TRUE)
            /\ LevelMap' = IF r.panic THEN LevelMap ELSE r.val
    /\ pc' = "mapped"
    /\ UNCHANGED gameVars

SpecMap ==
    InitMap /\ [][NeighboursStep \/ isFreeAtStep \/ isFreeAtCoordStep
                    \/ SetObstacleStep]_vars

(***************************************************************************)
(* The level map over a session: obstacles set one after the other, with   *)
(* queries in between                                                      *)
(***************************************************************************)
\* calls of SetObstacle on distinct tiles in one session
MaxPlaced == 2

\* call.placed: the tiles SetObstacle has returned on; call.again: a call of
\* SetObstacle was made on a tile of call.placed
InitSession ==
    /\ pc = "session"
    /\ LevelMap = CreateMap(MapW, MapH)
    /\ call = [op |-> "CreateMap", p |-> Pt(0, 0), placed |-> {}, again |-> FALSE]
    /\ result = NoProbe
    /\ GameLoaded

\* SetObstacle on a tile; the panic of an index out of range ends the session
PlaceStep ==
    /\ pc = "session"
    /\ \E p \in ProbeTiles :
         LET r == SetObstacle(LevelMap, p.X, p.Y)
         IN /\ p \in call.placed \/ Cardinality(call.placed) < MaxPlaced
            /\ call' = [op |-> "SetObstacle", p |-> p,
                        placed |-> IF r.panic THEN call.placed ELSE call.placed \cup {p},
                        again |-> call.again \/ p \in call.placed]
            /\ result' = IF r.panic THEN Panic ELSE Val(TRUE)
            /\ LevelMap' = IF r.panic THEN LevelMap ELSE r.val
            /\ pc' = IF r.panic THEN "panicked" ELSE "session"
    /\ UNCHANGED gameVars

\* isFreeAt on a tile
QueryStep ==
    /\ pc = "session"
    /\ \E p \in ProbeTiles :
         /\ call' = [call EXCEPT !.op = "isFreeAt", !.p = p]
         /\ result' = isFreeAt(LevelMap, p)
         /\ pc' = IF result'.panic THEN "panicked" ELSE "session"
    /\ UNCHANGED << LevelMap, gameVars >>

\* Neighbours of a tile
NeighboursQueryStep ==
    /\ pc = "session"
    /\ \E p \in ProbeTiles :
         /\ call' = [call EXCEPT !.op = "Neighbours", !.p = p]
         /\ result' = Neighbours(LevelMap, p)
         /\ pc' = IF result'.panic THEN "panicked" ELSE "session"
    /\ UNCHANGED << LevelMap, gameVars >>

SpecSession == InitSession /\ [][PlaceStep \/ QueryStep \/ NeighboursQueryStep]_vars

(***************************************************************************)
(* Path simplification alone, applied to a drawn path and to its output    *)
(***************************************************************************)
\* number of steps of the drawn paths
MaxSteps == 4

\* the steps between consecutive points: the eight unit steps of the search
\* and a step of two tiles
UnitSteps == Range(offsets) \cup Range(offsetsDiag)
DrawnSteps == UnitSteps \cup {Pt(2, 0)}

\* the path that starts at tile (0, 0) and takes the steps st
RECURSIVE PathFrom(_, _)
PathFrom(p, st) ==
    IF st = << >> THEN << p >>
    ELSE << p >> \o PathFrom(Add(p, Head(st)), Tail(st))

DrawnPaths ==
    {<< >>} \cup {PathFrom(Pt(0, 0), st) :
                    st \in UNION {[1..n -> DrawnSteps] : n \in 0..MaxSteps}}

InitSimplify ==
    /\ pc = "simplify"
    /\ LevelMap = WalledMap
    /\ \E p \in DrawnPaths : call = [op |-> "simplifyPath", path |-> p, orig |-> p]
    /\ result = NoProbe
    /\ GameLoaded

\* simplifyPath on the drawn path, then on what it returned
SimplifyStep ==
    /\ pc \in {"simplify", "simplified"}
    /\ LET input == IF pc = "simplify" THEN call.path ELSE result.val
       IN /\ call' = [call EXCEPT !.path = input]
          /\ result' = Val(simplifyPath(input))
    /\ pc' = IF pc = "simplify" THEN "simplified" ELSE "resimplified"
    /\ UNCHANGED << LevelMap, gameVars >>

SpecSimplify == InitSimplify /\ [][SimplifyStep]_vars

(***************************************************************************)
(* Curve fitting alone, applied to drawn waypoints                         *)
(***************************************************************************)
\* number of control points of the drawn Dog entity
MaxControl == 3

\* the Path arrays of the Dog entity: tiles inside the ring of the border
PathArrays == UNION {[1..n -> InnerTiles] : n \in 0..MaxControl}

InitCurve ==
    /\ pc = "fit"
    /\ LevelMap = WalledMap
    /\ \E pa \in PathArrays : call = [op |-> "none", pathArray |-> pa]
    /\ result = NoProbe
    /\ GameLoaded

\* GetBezierPathFromCoords on the control points of the entity
FromCoordsStep ==
    /\ pc = "fit"
    /\ LET pts == [i \in 1..Len(call.pathArray) |-> TileCentre(call.pathArray[i])]
       IN /\ call' = [op |-> "GetBezierPathFromCoords", pathArray |-> call.pathArray,
                      pathPoints |-> pts]
          /\ result' \in GetBezierPathFromCoords(pts, Resolution)
    /\ pc' = "fitted"
    /\ UNCHANGED << LevelMap, gameVars >>

\* the dog's path as NewGameScreen builds it
DogPathStep ==
    /\ pc = "fit"
    /\ call' = [op |-> "DogPath", pathArray |-> call.pathArray,
                pathPoints |-> << DogStart >> \o
                   [i \in 1..Len(call.pathArray) |-> TileCentre(call.pathArray[i])]]
    /\ result' \in DogPath(DogStart, call.pathArray)
    /\ pc' = "fitted"
    /\ UNCHANGED << LevelMap, gameVars >>

SpecCurve == InitCurve /\ [][FromCoordsStep \/ DogPathStep]_vars

(***************************************************************************)
(* FindPath alone, applied to a drawn map, start and destination           *)
(***************************************************************************)
\* the drawn Coords: one pixel of every tile of the map, off its centre
PlanCoords ==
    {[X |-> x * gridSize + 5, Y |-> y * gridSize + 5] :
       x \in 0..(MapW - 1), y \in 0..(MapH - 1)}

InitPlan ==
    /\ pc = "plan"
    /\ LevelMap \in LevelMaps
    /\ call = NoProbe
    /\ result = NoProbe
    /\ GameLoaded

FindPathStep ==
    /\ pc = "plan"
    /\ \E start \in PlanCoords, dest \in PlanCoords :
         /\ call' = [op |-> "FindPath", start |-> start, dest |-> dest]
         /\ result' \in FindPath(LevelMap, start, dest)
    /\ pc' = "planned"
    /\ UNCHANGED << LevelMap, gameVars >>

SpecPlan == InitPlan /\ [][FindPathStep]_vars

(***************************************************************************)
(* One spawn point and its zombies: hits, Zombies.Update, SpawnPoints.Update *)
(***************************************************************************)
\* InitialCount of the spawn point
SpawnInitial == 3

\* zombies the spawn point can ever have created: one more than it may own
SpawnIds == 1..(SpawnInitial + 1)

\* hits are drawn while fewer zombies than this have died
MaxDeaths == 3

\* a zombie the spawn point has not created yet, or that has died
NoZombie ==
    [HitToDie |-> 0, State |-> zombieDead, Speed |-> "zombieSpeed", InSpace |-> FALSE]

InitSpawn ==
    /\ pc = "shoot"
    /\ keyR = FALSE
    /\ click = FALSE
    /\ line = << >>
    /\ atShoot = NoCall
    /\ Player = [State |-> "playerIdle", Ammo |-> MaxAmmo]
    /\ Zombies = [i \in SpawnIds |->
                    IF i <= SpawnInitial THEN NewZombie(NormalHitToDie, "zombieSpeed")
                    ELSE NoZombie]
    /\ Boss = [Daemon |-> FALSE, State |-> "bossIdle1", Frame |-> 0, Dead |-> FALSE]
    /\ prevState = "none"
    /\ err = nil
    /\ BossDefeated = FALSE
    /\ Dog = WalledDog
    /\ dogOverlap = FALSE
    /\ met = NoneMet
    /\ newGame = Returned
    /\ \E cont \in BOOLEAN :
         SpawnPoints = [Continuous |-> cont, InitialCount |-> SpawnInitial,
                        Died |-> 0, Respawned |-> 0]
    /\ Entities = {}
    /\ Checkpoint = 0
    /\ Sounds = {}
    /\ returned = gameRunning
    /\ LevelMap = WalledMap
    /\ call = NoProbe
    /\ result = NoProbe

\* a shot that hits one zombie of the spawn point, or none
SpawnHitStep ==
    /\ pc = "shoot"
    /\ \/ UNCHANGED Zombies
       \/ /\ SpawnPoints.Died < MaxDeaths
          /\ \E i \in Owned(Zombies) : Zombies' = [Zombies EXCEPT ![i] = Hit(@)]
    /\ pc' = "agents"
    /\ UNCHANGED << keyR, click, line, atShoot, Player, Boss, prevState, err, BossDefeated,
                    Dog, dogOverlap, met, newGame, SpawnPoints, Entities, Checkpoint, Sounds,
                    returned, plannerVars >>

\* Zombies.Update of the zombies of the spawn point, then SpawnPoints.Update
SpawnTickStep ==
    /\ pc = "agents"
    /\ \E choice \in [SpawnIds -> ZombieChoices] :
         LET after == [i \in SpawnIds |-> ZombieUpdate(Zombies[i], choice[i])]
             sp == SpawnPointsUpdate(
                     [SpawnPoints EXCEPT
                        !.Died = @ + Cardinality(NewlyDead(Zombies, after))], after)
         IN /\ Zombies' = sp.zs
            /\ SpawnPoints' = sp.sp
    /\ pc' = "shoot"
    /\ UNCHANGED << keyR, click, line, atShoot, Player, Boss, prevState, err, BossDefeated,
                    Dog, dogOverlap, met, newGame, Entities, Checkpoint, Sounds, returned,
                    plannerVars >>

SpecSpawn == InitSpawn /\ [][SpawnHitStep \/ SpawnTickStep]_vars

(***************************************************************************)
(* The dog alone, updated tick after tick on a drawn path                  *)
(***************************************************************************)
\* the paths NewGameScreen can give the dog: the curves fitted to a drawn
\* Path array, when the fit returns
DogPaths ==
    {r.val : r \in {o \in UNION {DogPath(DogStart, pa) : pa \in PathArrays} : ~o.panic}}

InitDog ==
    /\ pc = "dog"
    /\ keyR = FALSE
    /\ click = FALSE
    /\ line = << >>
    /\ atShoot = NoCall
    /\ Player = [State |-> "playerIdle", Ammo |-> MaxAmmo]
    /\ Zombies = [i \in ZombieIds |->
                    IF i = BossId THEN NewZombie(BossHitToDie, zombieBigSpeed)
                    ELSE NewZombie(NormalHitToDie, "zombieSpeed")]
    /\ Boss = [Daemon |-> FALSE, State |-> "bossIdle1", Frame |-> 0, Dead |-> FALSE]
    /\ prevState = "none"
    /\ err = nil
    /\ BossDefeated = FALSE
    /\ \E path \in DogPaths :
         Dog = NewDog([X |-> DogStart.X * 10, Y |-> DogStart.Y * 10], path)
    /\ dogOverlap = FALSE
    /\ met = NoneMet
    /\ newGame = Returned
    /\ SpawnPoints = [Continuous |-> FALSE, InitialCount |-> Cardinality(NormalIds),
                      Died |-> 0, Respawned |-> 0]
    /\ Entities = {}
    /\ Checkpoint = 0
    /\ Sounds = {}
    /\ returned = gameRunning
    /\ LevelMap = WalledMap
    /\ call = NoProbe
    /\ result = NoProbe

\* one Dog.Update
DogStep ==
    /\ pc = "dog"
    /\ \E mob \in BOOLEAN :
         Dog' = DogUpdate(Dog, DogCheck(Dog, Cos(Dog.Angle) * dogSpeed, mob))
    /\ UNCHANGED << pc, keyR, click, line, atShoot, Player, Zombies, Boss, prevState, err,
                    BossDefeated, dogOverlap, met, newGame, SpawnPoints, Entities, Checkpoint,
                    Sounds, returned >>
    /\ UNCHANGED plannerVars

SpecDog == InitDog /\ [][DogStep]_vars

(***************************************************************************)
(* Game.Update, the game loop of main.go                                   *)
(***************************************************************************)
\* the arena: positions 0..ArenaSize on each axis, in steps of one move
ArenaSize == 3
Arena == {Pt(x, y) : x \in 0..ArenaSize, y \in 0..ArenaSize}

\* HowManyZombies, zombies generated at the start of the game
HowManyZombies == 1

\* MoveUp, MoveDown, MoveLeft, MoveRight of an object: one step
MoveUp(o) == [o EXCEPT !.Y = @ - 1]
MoveDown(o) == [o EXCEPT !.Y = @ + 1]
MoveLeft(o) == [o EXCEPT !.X = @ - 1]
MoveRight(o) == [o EXCEPT !.X = @ + 1]

\* the movement controls, keys = [Q, W, A, S, D -> pressed]
MovePlayer(p, keys) ==
    LET p1 == IF keys.W THEN MoveUp(p) ELSE p
        p2 == IF keys.A THEN MoveLeft(p1) ELSE p1
        p3 == IF keys.S THEN MoveDown(p2) ELSE p2
    IN IF keys.D THEN MoveRight(p3) ELSE p3

\* one zombie moves towards the player
MoveZombie(z, p) ==
    LET z1 == IF z.X < p.X THEN MoveRight(z) ELSE z
        z2 == IF z1.X > p.X THEN MoveLeft(z1) ELSE z1
        z3 == IF z2.Y < p.Y THEN MoveDown(z2) ELSE z2
    IN IF z3.Y > p.Y THEN MoveUp(z3) ELSE z3

\* the player's object overlaps collision.Objects[0] of Check(0, 0, "mob")
PlayerCaught(p, zs) == \E i \in DOMAIN zs : zs[i] = p

\* Game.Update on g = [Player, Zombies]: the game after it and the error
GameUpdate(g, keys) ==
    IF keys.Q THEN [g |-> g, err |-> "game quit by player"]
    ELSE LET p == MovePlayer(g.Player, keys)
             zs == [i \in DOMAIN g.Zombies |-> MoveZombie(g.Zombies[i], p)]
             g1 == [Player |-> p, Zombies |-> zs]
         IN IF PlayerCaught(p, zs) THEN [g |-> g1, err |-> "you died"]
            ELSE [g |-> g1, err |-> nil]

InitGame ==
    /\ pc = "game"
    /\ keyR = FALSE
    /\ click = FALSE
    /\ line = << >>
    /\ atShoot = NoCall
    /\ Player = Pt(ArenaSize \div 2, ArenaSize \div 2)
    /\ Zombies \in [1..HowManyZombies -> Arena \ {Pt(ArenaSize \div 2, ArenaSize \div 2)}]
    /\ Boss = [Daemon |-> FALSE, State |-> "bossIdle1", Frame |-> 0, Dead |-> FALSE]
    /\ prevState = "none"
    /\ err = nil
    /\ BossDefeated = FALSE
    /\ Dog = WalledDog
    /\ dogOverlap = FALSE
    /\ met = NoneMet
    /\ newGame = Returned
    /\ SpawnPoints = [Continuous |-> FALSE, InitialCount |-> HowManyZombies,
                      Died |-> 0, Respawned |-> 0]
    /\ Entities = {}
    /\ Checkpoint = 0
    /\ Sounds = {}
    /\ returned = gameRunning
    /\ LevelMap = WalledMap
    /\ call = NoProbe
    /\ result = NoProbe

\* one Game.Update; the game ends when it returns an error
GameUpdateStep ==
    /\ pc = "game"
    /\ \E keys \in [{"Q", "W", "A", "S", "D"} -> BOOLEAN] :
         LET r == GameUpdate([Player |-> Player, Zombies |-> Zombies], keys)
         IN /\ r.g.Player \in Arena
            /\ Player' = r.g.Player
            /\ Zombies' = r.g.Zombies
            /\ err' = r.err
            /\ pc' = IF r.err = nil THEN "game" ELSE "ended"
    /\ UNCHANGED << keyR, click, line, atShoot, Boss, prevState, BossDefeated, Dog,
                    dogOverlap, met, newGame, SpawnPoints, Entities, Checkpoint, Sounds, returned >>
    /\ UNCHANGED plannerVars

SpecGame == InitGame /\ [][GameUpdateStep]_vars

(***************************************************************************)
(* main of main.go: the NewGame goroutine beside the game loop             *)
(***************************************************************************)
\* main has started `go NewGame(game)` and calls ebiten.RunGame: NewGame has
\* not run a statement yet, g.Sprites and g.Player are nil; Player holds the
\* fields of the Player that NewGame builds, newGame.Player the pointer to it
InitRace ==
    /\ pc = "update"
    /\ keyR = FALSE
    /\ click = FALSE
    /\ line = << >>
    /\ atShoot = NoCall
    /\ Player = Pt(ArenaSize \div 2, ArenaSize \div 2)
    /\ Zombies \in [1..HowManyZombies -> Arena \ {Pt(ArenaSize \div 2, ArenaSize \div 2)}]
    /\ Boss = [Daemon |-> FALSE, State |-> "bossIdle1", Frame |-> 0, Dead |-> FALSE]
    /\ prevState = "none"
    /\ err = nil
    /\ BossDefeated = FALSE
    /\ Dog = WalledDog
    /\ dogOverlap = FALSE
    /\ met = NoneMet
    /\ newGame = [at |-> 0, Sprites |-> nil, Player |-> nil]
    /\ SpawnPoints = [Continuous |-> FALSE, InitialCount |-> HowManyZombies,
                      Died |-> 0, Respawned |-> 0]
    /\ Entities = {}
    /\ Checkpoint = 0
    /\ Sounds = {}
    /\ returned = gameRunning
    /\ LevelMap = WalledMap
    /\ call = NoProbe
    /\ result = NoProbe

\* the next statement of NewGame: g.Sprites = make(...), g.Sprites[spritePlayer]
\* = loadSprite(...), g.Player = &Player{...}, then g.Space.Add, which is
\* running while newGame.at = 4
NewGameStep ==
    /\ pc \in {"update", "draw"}
    /\ newGame.at < 5
    /\ newGame' = [at |-> newGame.at + 1,
                   Sprites |-> CASE newGame.at = 0 -> "empty"
                                 [] newGame.at = 1 -> "player"
                                 [] OTHER -> newGame.Sprites,
                   Player |-> IF newGame.at = 2 THEN "&Player" ELSE newGame.Player]
    /\ UNCHANGED << pc, Player, keyR, click, line, atShoot, Zombies, Boss, prevState, err,
                    BossDefeated, Dog, dogOverlap, met, SpawnPoints, Entities,
                    Checkpoint, Sounds, returned >>
    /\ UNCHANGED plannerVars

\* Game.Update called by the game loop: it panics on a nil g.Player; call
\* records whether it ran while NewGame's Space.Add was running
RaceUpdateStep ==
    /\ pc = "update"
    /\ \E keys \in [{"Q", "W", "A", "S", "D"} -> BOOLEAN] :
         IF keys.Q
         THEN /\ err' = "game quit by player"
              /\ pc' = "ended"
              /\ UNCHANGED << Player, Zombies, call, result >>
         ELSE IF newGame.Player = nil
         THEN /\ result' = Panic
              /\ pc' = "panicked"
              /\ call' = [op |-> "Update", duringAdd |-> FALSE]
              /\ UNCHANGED << Player, Zombies, err >>
         ELSE LET r == GameUpdate([Player |-> Player, Zombies |-> Zombies], keys)
              IN /\ r.g.Player \in Arena
                 /\ Player' = r.g.Player
                 /\ Zombies' = r.g.Zombies
                 /\ err' = r.err
                 /\ pc' = IF r.err = nil THEN "draw" ELSE "ended"
                 /\ call' = [op |-> "Update", duringAdd |-> newGame.at = 4]
                 /\ result' = Val(r.err)
    /\ UNCHANGED << keyR, click, line, atShoot, Boss, prevState, BossDefeated, Dog,
                    dogOverlap, met, newGame, SpawnPoints, Entities, Checkpoint,
                    Sounds, returned, LevelMap >>

\* Game.Draw called by the game loop: it reads g.Player.Sprite
RaceDrawStep ==
    /\ pc = "draw"
    /\ call' = [op |-> "Draw", duringAdd |-> FALSE]
    /\ result' = IF newGame.Player = nil THEN Panic ELSE Val(nil)
    /\ pc' = IF newGame.Player = nil THEN "panicked" ELSE "update"
    /\ UNCHANGED << keyR, click, line, atShoot, Player, Zombies, Boss, prevState, err,
                    BossDefeated, Dog, dogOverlap, met, newGame, SpawnPoints, Entities,
                    Checkpoint, Sounds, returned, LevelMap >>

SpecRace == InitRace /\ [][NewGameStep \/ RaceUpdateStep \/ RaceDrawStep]_vars

(***************************************************************************)
(* The checkpoints of a level: of every tick of GameScreen.Update, its     *)
(* collision checks, on a level that holds Checkpoint entities             *)
(***************************************************************************)
\* the checkpoint ids a drawn level may hold; g.Voices[voiceCheckpoint] holds
\* VoiceCount players, one per id
MaxCheckpoint == 3
VoiceCount == 7

\* the state NewGameScreen leaves: one object tagged tagCheckpoint per
\* Checkpoint entity, its Data the id parsed from the identifier
InitCheckpoint ==
    /\ pc = "collide"
    /\ keyR = FALSE
    /\ click = FALSE
    /\ line = << >>
    /\ atShoot = NoCall
    /\ Player = [State |-> "playerIdle", Ammo |-> MaxAmmo]
    /\ Zombies = [i \in ZombieIds |->
                    IF i = BossId THEN NewZombie(BossHitToDie, zombieBigSpeed)
                    ELSE NewZombie(NormalHitToDie, "zombieSpeed")]
    /\ Boss = [Daemon |-> FALSE, State |-> "bossIdle1", Frame |-> 0, Dead |-> FALSE]
    /\ prevState = "none"
    /\ err = nil
    /\ BossDefeated = FALSE
    /\ Dog = WalledDog
    /\ dogOverlap = FALSE
    /\ met = NoneMet
    /\ newGame = Returned
    /\ SpawnPoints = [Continuous |-> FALSE, InitialCount |-> Cardinality(NormalIds),
                      Died |-> 0, Respawned |-> 0]
    /\ Entities \in SUBSET (1..(IF MaxCheckpoint < VoiceCount THEN MaxCheckpoint
                                                             ELSE VoiceCount))
    /\ Checkpoint = 0
    /\ Sounds = {}
    /\ returned = gameRunning
    /\ LevelMap = WalledMap
    /\ call = NoProbe
    /\ result = NoProbe

\* the collision checks of one tick and the GameState they return; what the
\* tick does before them leaves g.Checkpoint alone
CheckpointTickStep ==
    /\ pc = "collide"
    /\ ScreenActive
    /\ \E pmob \in BOOLEAN, cp \in {0} \cup Entities, end \in BOOLEAN,
          near \in NearMobs(Zombies) :
         /\ Collide([pmob |-> pmob, cp |-> cp, end |-> end, near |-> near])
         /\ dogOverlap' = (~pmob /\ ~end /\ \E k \in 1..Len(near) : near[k])
         /\ met' = [player |-> pmob, cp |-> cp, end |-> end,
                    dog |-> \E k \in 1..Len(near) : near[k]]
    /\ UNCHANGED << pc, keyR, click, line, atShoot, Player, Zombies, Boss, prevState, err,
                    BossDefeated, newGame, SpawnPoints, Entities >>
    /\ UNCHANGED plannerVars

SpecCheckpoint == InitCheckpoint /\ [][CheckpointTickStep]_vars

(***************************************************************************)
(* Combat resolution                                                       *)
(***************************************************************************)
SameHitToDie == \A i \in ZombieIds : Zombies'[i].HitToDie = Zombies[i].HitToDie

\* C2: a fire attempt with Ammo = 0 in a state that otherwise permits firing
\* damages no zombie, plays no gunshot, leaves Ammo at 0, plays the dry-fire
\* cue and puts the player in playerDryFire.
C2_DryFireOnEmpty ==
    [][(/\ pc = "shoot" /\ click'
        /\ Player.Ammo = 0
        /\ Player.State \notin {"playerShooting", "playerReady", "playerUnready",
                                "playerReload"})
       => /\ SameHitToDie
          /\ "soundGunShot.Play" \notin Sounds'
          /\ Player'.Ammo = 0
          /\ "soundDryFire.Play" \in Sounds'
          /\ Player'.State = "playerDryFire"]_vars

C2_Witness ==
    /\ pc = "agents" /\ click
    /\ atShoot = [State |-> "playerIdle", Ammo |-> 0]
    /\ Player = [State |-> "playerDryFire", Ammo |-> 0]
    /\ Sounds = {"soundGunReload.Pause", "soundDryFire.Play"}

\* C3: a call of Shoot damages at most one zombie, by exactly one unit of
\* HitToDie, and that zombie is the first object tagged mob on the line.
C3_OneHitAtFirstMob ==
    [][pc = "shoot" =>
        LET changed == {i \in ZombieIds : Zombies'[i] # Zombies[i]}
        IN /\ Cardinality(changed) <= 1
           /\ \A i \in changed :
                /\ Zombies'[i].HitToDie = Zombies[i].HitToDie - 1
                /\ \E k \in 1..Len(line) :
                     /\ line[k] = [tag |-> tagMob, Data |-> i]
                     /\ \A j \in 1..(k - 1) : line[j].tag # tagMob]_vars

C3_Witness ==
    /\ pc = "agents"
    /\ atShoot.State = "playerIdle"
    /\ Len(line) = 2
    /\ line[1] = [tag |-> tagMob, Data |-> 1]
    /\ line[2] = [tag |-> tagMob, Data |-> BossId]
    /\ Zombies[1].HitToDie = NormalHitToDie - 1
    /\ Zombies[1].State = zombieHit
    /\ Zombies[BossId].HitToDie = BossHitToDie
    /\ Zombies[BossId].State = zombieIdle

\* C4: a fire attempt during playerReload cancels the reload and does not
\* fire, whatever the Ammo: the reload sound is paused, the dry-fire cue is
\* played, the state becomes playerDryFire, Ammo and every HitToDie are
\* unchanged and the gunshot cue is not played.
C4_FireCancelsReload ==
    [][(pc = "shoot" /\ click' /\ Player.State = "playerReload")
       => /\ "soundGunReload.Pause" \in Sounds'
          /\ "soundDryFire.Play" \in Sounds'
          /\ Player'.State = "playerDryFire"
          /\ Player'.Ammo = Player.Ammo
          /\ "soundGunShot.Play" \notin Sounds'
          /\ SameHitToDie]_vars

C4_Witness ==
    /\ pc = "agents" /\ click
    /\ atShoot.State = "playerReload" /\ atShoot.Ammo > 0
    /\ Player = [State |-> "playerDryFire", Ammo |-> atShoot.Ammo]
    /\ "soundGunReload.Pause" \in Sounds

(***************************************************************************)
(* Boss life cycle                                                         *)
(***************************************************************************)
\* C1: the boss reaches terminal death (Boss.Dead, BossDefeated) only while
\* in phase 2: in every reachable state Dead implies Daemon.
C1_DeadOnlyInPhase2 ==
    /\ Boss.Dead => Boss.Daemon
    /\ BossDefeated => Boss.Daemon

\* C5: in phase 1, when a hit brings the boss's HitToDie to 1, the boss is in
\* the death1 sequence (bossDeath1, not bossDeath2) once its Update of that
\* tick has run, and it is not dead.
C5_Death1AtOne ==
    (pc = "collide" /\ ~Boss.Daemon /\ Zombies[BossId].HitToDie = 1)
      => (Boss.State = "bossDeath1" /\ ~Boss.Dead)

(***************************************************************************)
(* Boss dispatch table                                                     *)
(***************************************************************************)
LiveBase == {zombieIdle, zombieWalking, zombieHit}

\* the row <<idle, walking, hit>> of the phase-1 table for a HitToDie of 2..10
Bucket(h) ==
    CASE h \in 8..10 -> << "bossIdle1", "bossWalking1", "bossHit1" >>
      [] h = 7 -> << "bossIdle2", "bossWalking2", "bossHit1" >>
      [] h \in 5..6 -> << "bossIdle2", "bossWalking2", "bossHit2" >>
      [] h \in 3..4 -> << "bossIdle3", "bossWalking3", "bossHit2" >>
      [] h = 2 -> << "bossIdle4", "bossRunning", "bossDeath1" >>

Column(zst) ==
    CASE zst = zombieIdle -> 1 [] zst = zombieWalking -> 2 [] zst = zombieHit -> 3

\* C6: in phase 1 the display state chosen by the dispatch is the entry of
\* the bucketed table for (HitToDie, base state), the same for every value of
\* one bucket; HitToDie = 8 with base state idle gives bossIdle1.
C6_Phase1Table ==
    [][(pc = "dispatch" /\ ~Boss.Daemon)
       => LET h == Zombies[BossId].HitToDie
              zst == Zombies[BossId].State
          IN /\ (h \in 2..10 /\ zst \in LiveBase)
                  => Boss'.State = Bucket(h)[Column(zst)]
             /\ (h = 8 /\ zst = zombieIdle) => Boss'.State = "bossIdle1"]_vars

C6_Witness ==
    /\ pc = "animate" /\ ~Boss.Daemon
    /\ Zombies[BossId].HitToDie = 8 /\ Zombies[BossId].State = zombieIdle
    /\ prevState = "bossWalking3"
    /\ Boss.State = "bossIdle1"

\* C7 as stated: for every HitToDie > 2 and every base state the branch of
\* Daemon = true selects the display state the branch of Daemon = false
\* selects from the same prior state, and at HitToDie = 1 with base state hit
\* both select bossDeath2.
C7_BranchesAgreeAbove2 ==
    [][pc = "dispatch"
       => LET h == Zombies[BossId].HitToDie
              zst == Zombies[BossId].State
          IN /\ (h > 2 /\ zst \in LiveBase)
                  => Boss'.State = Dispatch(~Boss.Daemon, h, zst, Boss.State)
             /\ (h = 1 /\ zst = zombieHit) => Boss'.State = "bossDeath2"]_vars

\* C7 amended: the two branches select the same display state at
\* HitToDie <= 2 and differ for HitToDie in 3..10, where phase 1 selects from
\* the bucket table and phase 2 has no case and leaves the prior display
\* state; at HitToDie = 1 with base state hit both select bossDeath2.
C7_BranchesAgreeUpTo2 ==
    [][pc = "dispatch"
       => LET h == Zombies[BossId].HitToDie
              zst == Zombies[BossId].State
          IN /\ h <= 2 => Boss'.State = Dispatch(~Boss.Daemon, h, zst, Boss.State)
             /\ (h \in 3..10 /\ zst \in LiveBase)
                  => Boss'.State = IF Boss.Daemon THEN Boss.State
                                   ELSE Bucket(h)[Column(zst)]
             /\ (h = 1 /\ zst = zombieHit) => Boss'.State = "bossDeath2"]_vars

C7_Witness ==
    /\ pc = "animate" /\ Boss.Daemon
    /\ Zombies[BossId].HitToDie = 8 /\ Zombies[BossId].State = zombieIdle
    /\ prevState = "bossRunning"
    /\ Boss.State = "bossRunning"

(***************************************************************************)
(* Order of the steps of a tick                                            *)
(***************************************************************************)
\* the display state the animation-complete callback assigns
AfterClip(st) ==
    CASE st = "bossHit1" -> "bossWalking1"
      [] st = "bossHit2" -> "bossWalking2"
      [] st = "bossDeath1" -> "bossPhase2"
      [] st = "bossPhase2" -> "bossRunning"
      [] OTHER -> st

\* C8: for a live boss Boss.Update recomputes the state, then advances the
\* frame inside the clip of the recomputed state, then tests the advanced
\* frame against the clip's last frame; the callback's state is the state the
\* tick leaves, overriding the recomputed one.
C8_RecomputeAnimateCheck ==
    [][(pc = "agents" /\ ~Boss.Dead)
       => LET d == Dispatch(Boss.Daemon, Zombies[BossId].HitToDie,
                            Zombies[BossId].State, Boss.State)
              f == Animate(Boss.Frame, FrameTags(d))
          IN /\ Boss'.Frame = f
             /\ Boss'.State = IF f = FrameTags(d).To THEN AfterClip(d) ELSE d
             /\ Boss'.Dead = (f = FrameTags(d).To /\ d = "bossDeath2")]_vars

C8_Witness ==
    /\ pc = "collide" /\ ~Boss.Dead
    /\ Zombies[BossId].HitToDie = 7
    /\ prevState = "bossHit1"
    /\ Boss.Frame = FrameTags("bossHit1").To
    /\ Boss.State = "bossWalking1"

\* the display states a live boss can show after its Update, per HitToDie
Tier(h) ==
    CASE h \in 8..10 -> {"bossIdle1", "bossWalking1", "bossHit1"}
      [] h = 7 -> {"bossIdle2", "bossWalking2", "bossHit1", "bossWalking1"}
      [] h \in 5..6 -> {"bossIdle2", "bossWalking2", "bossHit2"}
      [] h \in 3..4 -> {"bossIdle3", "bossWalking3", "bossHit2", "bossWalking2"}
      [] h = 2 -> {"bossIdle4", "bossRunning", "bossDeath1", "bossPhase2"}
      [] OTHER -> {"bossDeath2"}

\* C9: a tick runs input, Shoot, the agent updates with the spawn points,
\* then the collision checks; so when the collision checks start, the display
\* state of a live boss already belongs to the HitToDie a shot of this tick
\* left, and a boss hit this tick is in its hit or death reaction.
C9_HitVisibleSameTick ==
    (pc = "collide" /\ ~Boss.Dead)
      => /\ Boss.State \in Tier(Zombies[BossId].HitToDie)
         /\ (click /\ Zombies[BossId].State = zombieHit
               /\ prevState \in {"bossIdle1", "bossWalking1", "bossIdle2",
                                 "bossWalking2", "bossIdle3", "bossWalking3",
                                 "bossIdle4", "bossRunning"})
              => Boss.State \in {"bossHit1", "bossHit2", "bossDeath1", "bossDeath2"}

C9_Witness ==
    /\ pc = "collide" /\ click
    /\ Zombies[BossId].HitToDie = 7 /\ Zombies[BossId].State = zombieHit
    /\ prevState = "bossIdle1"
    /\ Boss.State = "bossHit1"
    /\ Boss.Frame = FrameTags("bossHit1").From

(***************************************************************************)
(* Loss of the dog                                                         *)
(***************************************************************************)
\* C10: a tick whose collision check of the dog ran with a zombie overlapping
\* the dog leaves the dog's mode dogDead and returns gameOver.
C10_OverlapKillsDog ==
    (pc = "key" /\ dogOverlap) => (Dog.Mode = dogDead /\ returned = gameOver)

(***************************************************************************)
(* Level map                                                               *)
(***************************************************************************)
\* a tile of the map that holds no obstacle
FreeTile(m, q) == InRange(m, q) /\ m[q.Y][q.X] = 0

\* the free orthogonal neighbours of p, and the diagonal ones whose own tile
\* and both orthogonal tiles next to it are free
PassableNeighbours(m, p) ==
    {Add(p, o) : o \in {d \in Range(offsets) : FreeTile(m, Add(p, d))}}
      \cup {Add(p, o) : o \in {d \in Range(offsetsDiag) :
                                 /\ FreeTile(m, Add(p, d))
                                 /\ FreeTile(m, Pt(p.X, p.Y + d.Y))
                                 /\ FreeTile(m, Pt(p.X + d.X, p.Y))}}

\* C11: for every map and every tile p of it, Neighbours(p) returns exactly
\* the free orthogonal neighbours and the diagonal neighbours with three
\* free tiles, at most 8 tiles, none twice and none an obstacle.
C11_NeighboursExact ==
    (pc = "mapped" /\ call.op = "Neighbours" /\ InRange(LevelMap, call.p))
      => /\ ~result.panic
         /\ Range(result.val) = PassableNeighbours(LevelMap, call.p)
         /\ Len(result.val) <= 8
         /\ Cardinality(Range(result.val)) = Len(result.val)
         /\ \A q \in Range(result.val) : FreeTile(LevelMap, q)

\* whether the arguments of the last grid operation name a tile of the map
ArgInMap ==
    IF call.op = "isFreeAtCoord"
    THEN /\ call.c.X >= 0 /\ call.c.X < MapW * gridSize
         /\ call.c.Y >= 0 /\ call.c.Y < MapH * gridSize
    ELSE InRange(LevelMap, call.p)

\* C12: no grid operation indexes the map outside its extent: called on a
\* tile of the map it returns a value, border and corner tiles included, and
\* called on a tile or pixel outside the map it rejects the call, every time.
C12_NoIndexOutside ==
    pc = "mapped" => (result.panic <=> ~ArgInMap)

(***************************************************************************)
(* Path planner                                                            *)
(***************************************************************************)
\* C13 as stated: for every sequence of grid points, simplifyPath applied to
\* its own output returns that output.
C13_SimplifyIdempotent ==
    pc = "resimplified" => result.val = call.path

\* a path whose consecutive points are one step apart in one of the eight
\* directions, as the search returns them
UnitStepPath(path) ==
    \A i \in 1..(Len(path) - 1) : Sub(path[i + 1], path[i]) \in UnitSteps

\* C13 amended: for every path of unit steps in the eight directions, which
\* covers every path the search returns, simplifyPath applied to its own
\* output returns that output.
C13_SimplifyIdempotentOnUnitSteps ==
    (pc = "resimplified" /\ UnitStepPath(call.orig)) => result.val = call.path

C13_Witness ==
    /\ pc = "resimplified"
    /\ call.orig = << Pt(0, 0), Pt(1, 0), Pt(2, 0), Pt(3, 1), Pt(4, 2) >>
    /\ call.path = << Pt(0, 0), Pt(2, 0), Pt(4, 2) >>
    /\ result.val = call.path

\* C14: curve fitting applied to fewer than 3 waypoints returns exactly these
\* waypoints, in order and without sampling, through GetBezierPathFromCoords
\* and for the dog's path built at load.
C14_ShortPathsBypass ==
    (pc = "fitted" /\ Len(call.pathPoints) < 3) => result = Val(call.pathPoints)

\* the tile that contains a Coord of the map: floor of the quotient
TileOf(c) == Pt(c.X \div gridSize, c.Y \div gridSize)

\* the centre of the tile that contains a Coord
CentreOf(c) == [X |-> (c.X \div gridSize) * gridSize + gridSize \div 2,
                Y |-> (c.Y \div gridSize) * gridSize + gridSize \div 2]

\* the tiles that can be reached from the tiles of S through free neighbours
RECURSIVE Reachable(_, _)
Reachable(m, S) ==
    LET N == S \cup UNION {PassableNeighbours(m, t) : t \in S}
    IN IF N = S THEN S ELSE Reachable(m, N)

DestReachable == TileOf(call.dest) \in Reachable(LevelMap, {TileOf(call.start)})

C16_UnreachableReturns ==
    (pc = "planned" /\ ~DestReachable) => ~result.panic

(***************************************************************************)
(* Spawn points                                                            *)
(***************************************************************************)
\* C17: a continuous spawn point spawns exactly one replacement per death of
\* a zombie it owns: it never owns more than InitialCount zombies, it has
\* never spawned more replacements than zombies have died, and the deaths not
\* yet replaced are exactly the zombies missing from InitialCount; a spawn
\* point that is not continuous never spawns a replacement.
C17_OneReplacementPerDeath ==
    LET live == Cardinality(Owned(Zombies))
    IN /\ live <= SpawnPoints.InitialCount
       /\ SpawnPoints.Respawned <= SpawnPoints.Died
       /\ SpawnPoints.Continuous
            => SpawnPoints.Died - SpawnPoints.Respawned = SpawnPoints.InitialCount - live
       /\ ~SpawnPoints.Continuous => SpawnPoints.Respawned = 0

C17_Witness ==
    /\ pc = "shoot"
    /\ SpawnPoints.Continuous
    /\ SpawnPoints.Died = 2 /\ SpawnPoints.Respawned = 2
    /\ Cardinality(Owned(Zombies)) = SpawnPoints.InitialCount

(***************************************************************************)
(* Dog                                                                     *)
(***************************************************************************)
\* the path cursor is at the last point of the path, or past it
AtLastPoint(d) == d.MainPath.NextPoint >= Len(d.MainPath.Points) - 1

TerminalCondition ==
    \/ pc = "ended" /\ PlayerCaught(Player, Zombies)
    \/ returned # gameRunning
    \/ Dog.Mode = dogDead
    \/ Boss.Dead
    \/ BossDefeated

\* C19: when a terminal condition of the game holds, the update operation
\* that ran last returned the nil error.
C19_TerminalWithNilError == TerminalCondition => err = nil

(***************************************************************************)
(* Side effects of the boss                                                *)
(***************************************************************************)
\* the calls on the sound players of the boss
BossSounds ==
    {"soundBigZombieDeath1.Play", "soundBigZombieScream.Play", "soundBigZombieDeath2.Play"}

\* a step changes Daemon, Dead, BossDefeated or the boss's Speed, or plays a
\* sound of the boss
SideEffect ==
    \/ Boss'.Daemon # Boss.Daemon
    \/ Boss'.Dead # Boss.Dead
    \/ BossDefeated' # BossDefeated
    \/ Zombies'[BossId].Speed # Zombies[BossId].Speed
    \/ Sounds' \cap BossSounds # {}

\* the Boss.Update of this step calls outterAnimationBasedStateChanges: after
\* the dispatch and the frame advance, Frame is the last frame of the clip of
\* the display state
CallbackRuns ==
    /\ pc = "agents"
    /\ ~Boss.Dead
    /\ LET d == Dispatch(Boss.Daemon, Zombies[BossId].HitToDie, Zombies[BossId].State,
                         Boss.State)
       IN Animate(Boss.Frame, FrameTags(d)) = FrameTags(d).To

\* C20: Daemon, Dead, BossDefeated, the boss's Speed and the boss's sounds
\* change only in a step whose Boss.Update calls the animation-complete
\* callback, that is in a tick where Frame is the last frame of the clip of
\* the current display state; every other step, and the dispatch and the
\* frame advance of Boss.Update by themselves, leave all of them unchanged.
C20_EffectsOnlyInCallback == [][SideEffect => CallbackRuns]_vars

C20_Witness ==
    /\ pc = "collide"
    /\ prevState = "bossDeath1"
    /\ Boss.State = "bossPhase2"
    /\ Boss.Daemon
    /\ Zombies[BossId].Speed = zombieSprinterSpeed2
    /\ "soundBigZombieDeath1.Play" \in Sounds

(***************************************************************************)
(* Line of fire                                                            *)
(***************************************************************************)
\* C21: the zombie a shot hits is the nearest zombie on the line of fire
\* within range: no zombie of the space within range stands strictly nearer
\* to the player than the zombie hit.
C21_NearestIsHit ==
    (pc = "fired" /\ result.val # -1)
      => \A j \in ZombieIds :
           (Zombies[j].InSpace /\ call.at[j] <= FireRange)
             => call.at[j] >= call.at[result.val]

(***************************************************************************)
(* Obstacles                                                               *)
(***************************************************************************)
\* C22: SetObstacle is irreversible: after every step of a session each
\* tile SetObstacle has been called on is reported as not free, no step
\* sets a tile back to free, a repeated SetObstacle leaves the map as it
\* is, and SetObstacle changes no tile other than its own.
C22_ObstaclesStay ==
    [][/\ \A t \in call'.placed : isFreeAt(LevelMap', t) = Val(FALSE)
       /\ \A t \in Tiles : LevelMap[t.Y][t.X] = 1 => LevelMap'[t.Y][t.X] = 1
       /\ (call'.op = "SetObstacle" /\ call'.p \in call.placed) => LevelMap' = LevelMap
       /\ call'.op = "SetObstacle"
            => \A t \in Tiles \ {call'.p} : LevelMap'[t.Y][t.X] = LevelMap[t.Y][t.X]]_vars

C22_Witness ==
    /\ pc = "session"
    /\ call.op = "isFreeAt"
    /\ call.again
    /\ Cardinality(call.placed) = MaxPlaced
    /\ call.p \in call.placed
    /\ result = Val(FALSE)

(***************************************************************************)
(* Phase 2 of the boss                                                     *)
(***************************************************************************)
\* the Boss.Update of this step ends the clip of bossDeath1: after the
\* dispatch the display state is bossDeath1 and the frame advance reaches the
\* last frame of its clip
Death1Completes ==
    /\ pc = "agents"
    /\ ~Boss.Dead
    /\ LET d == Dispatch(Boss.Daemon, Zombies[BossId].HitToDie, Zombies[BossId].State,
                         Boss.State)
       IN d = "bossDeath1" /\ Animate(Boss.Frame, FrameTags(d)) = FrameTags(d).To

TurnPoints(path) ==
    {i \in 1..Len(path) :
       \/ i = 1 \/ i = Len(path)
       \/ Sub(path[i + 1], path[i]) # Sub(path[i], path[i - 1])}

\* the points of a path at the indices ix, in the order of the path
SubPath(path, ix) ==
    [n \in 1..Cardinality(ix) |->
       path[CHOOSE i \in ix : Cardinality({j \in ix : j < i}) = n - 1]]

\* the direction of a vector along one of the eight directions
Sign(n) == IF n > 0 THEN 1 ELSE IF n < 0 THEN -1 ELSE 0
Direction(v) == Pt(Sign(v.X), Sign(v.Y))

\* C24: for every non-empty path of unit steps in the eight directions,
\* simplifyPath returns the points of the path that are the first point, the
\* last point or a point at which the step changes, in the order of the
\* path; in what it returns no interior point continues the direction of the
\* segment before it.
C24_KeepsTurnPoints ==
    (pc = "simplified" /\ call.path # << >> /\ UnitStepPath(call.path))
      => /\ result.val = SubPath(call.path, TurnPoints(call.path))
         /\ result.val[1] = call.path[1]
         /\ result.val[Len(result.val)] = call.path[Len(call.path)]
         /\ \A n \in 2..(Len(result.val) - 1) :
              Direction(Sub(result.val[n + 1], result.val[n]))
                # Direction(Sub(result.val[n], result.val[n - 1]))

C24_Witness ==
    /\ pc = "simplified"
    /\ call.path = << Pt(0, 0), Pt(1, 0), Pt(2, 0), Pt(3, 1), Pt(4, 1) >>
    /\ result.val = << Pt(0, 0), Pt(2, 0), Pt(3, 1), Pt(4, 1) >>

(***************************************************************************)
(* Actions in a state that cannot be interrupted                           *)
(***************************************************************************)
\* C25: a click while the player is in playerShooting, playerReady or
\* playerUnready, and an R key press while the player is in playerShooting or
\* playerReload, leave the player's state and Ammo and every zombie's
\* HitToDie as they are, play no sound and return no error.
C25_LocalNoOp ==
    [][/\ (/\ pc = "shoot" /\ click'
           /\ Player.State \in {"playerShooting", "playerReady", "playerUnready"})
          => /\ Player' = Player
             /\ SameHitToDie
             /\ Sounds' = {}
             /\ err' = nil
       /\ (/\ pc = "key" /\ keyR'
           /\ Player.State \in {"playerShooting", "playerReload"})
          => /\ Player' = Player
             /\ SameHitToDie
             /\ Sounds' = {}
             /\ err' = nil]_vars

C25_Witness ==
    /\ pc = "agents"
    /\ keyR /\ click
    /\ atShoot = [State |-> "playerShooting", Ammo |-> 1]
    /\ Player = atShoot
    /\ Sounds = {}

(***************************************************************************)
(* Ammunition                                                              *)
(***************************************************************************)
\* C26: Ammo is never negative; a call of Shoot takes exactly 1 from Ammo
\* when it fires, that is when the player's state is none of playerShooting,
\* playerReady, playerUnready and playerReload and Ammo is at least 1, whether
\* a zombie is hit or not, and leaves Ammo unchanged in every other case.
C26_AmmoAccounting ==
    [][/\ Player.Ammo >= 0 /\ Player'.Ammo >= 0
       /\ pc = "shoot"
            => IF /\ click'
                  /\ Player.State \notin {"playerShooting", "playerReady",
                                          "playerUnready", "playerReload"}
                  /\ Player.Ammo >= 1
               THEN Player'.Ammo = Player.Ammo - 1
               ELSE Player'.Ammo = Player.Ammo]_vars

C26_Witness ==
    /\ pc = "agents" /\ click
    /\ atShoot = [State |-> "playerIdle", Ammo |-> 1]
    /\ Player = [State |-> "playerShooting", Ammo |-> 0]
    /\ Sounds = {"soundGunShot.Play"}

(***************************************************************************)
(* Order of the terminal conditions                                        *)
(***************************************************************************)
\* C27: the state a tick returns follows a fixed order: gameOver when a
\* zombie intersects the player; otherwise gameWon when the player is on the
\* End entity; otherwise gameOver when a zombie overlaps the dog; gameRunning
\* only when none of the three holds.
C27_TerminalOrder ==
    pc = "key"
      => returned = (IF met.player THEN gameOver
                     ELSE IF met.end THEN gameWon
                     ELSE IF met.dog THEN gameOver
                     ELSE gameRunning)

(***************************************************************************)
(* The dead boss                                                           *)
(***************************************************************************)
\* C28: once Boss.Dead is true it stays true, and a Boss.Update of the dead
\* boss changes neither the display state, the Frame, Daemon nor Dead, and
\* neither HitToDie, Speed nor the state of the inner zombie, whose Update
\* does not run.
C28_DeadIsAbsorbing ==
    [][Boss.Dead
         => /\ Boss'.Dead
            /\ pc = "agents"
                 => /\ Boss' = Boss
                    /\ Zombies'[BossId] = Zombies[BossId]
                    /\ BossDefeated' = BossDefeated]_vars

C28_Witness ==
    /\ pc = "collide"
    /\ prevState = "bossDeath2"
    /\ Boss.Dead /\ Boss.State = "bossDeath2"
    /\ err = "Zombie Boss died"

(***************************************************************************)
(* The NewGame goroutine                                                   *)
(***************************************************************************)
\* C29: in every interleaving of the NewGame goroutine with the game loop,
\* Update and Draw read g.Player only after NewGame has assigned it, so none
\* of them panics on a nil pointer, and no Update makes its collision query
\* while NewGame's Space.Add is running.
C29_LoopAfterNewGame ==
    /\ result # Panic
    /\ call.op = "Update" => ~call.duringAdd

(***************************************************************************)
(* The boss's second death                                                 *)
(***************************************************************************)
\* C30: once the boss's display state is bossDeath2 the boss becomes Dead,
\* given that Boss.Update keeps being called tick after tick: no step moves
\* the display state out of bossDeath2, whatever the dispatch selects,
\* whatever further hits the boss takes and whatever its inner zombie would
\* do, so the clip runs to its last frame and its callback calls Die.
C30_Death2Completes ==
    /\ [][Boss.State = "bossDeath2" => Boss'.State = "bossDeath2"]_vars
    /\ ([]<><<BossUpdateStep>>_vars) => ((Boss.State = "bossDeath2") ~> Boss.Dead)

\* the boss has died at the end of a bossDeath2 clip during which it took a
\* further hit
C30_Witness ==
    /\ pc = "return"
    /\ prevState = "bossDeath2"
    /\ Boss.Dead
    /\ Zombies[BossId].HitToDie < 1

(***************************************************************************)
(* The checkpoint counter                                                  *)
(***************************************************************************)
\* C31: g.Checkpoint never decreases; a tick changes it only to the id of
\* the checkpoint the player overlaps on that tick, and only when that id is
\* strictly greater than the counter; the checkpoint voice line is played on
\* exactly the ticks that increase the counter, so a tick on a passed or
\* lower checkpoint changes nothing and plays nothing.
C31_CheckpointOnlyGrows ==
    [][/\ Checkpoint' >= Checkpoint
       /\ Checkpoint' # Checkpoint =>
            /\ Checkpoint' \in Entities
            /\ Checkpoint' = met'.cp
            /\ Checkpoint' > Checkpoint
       /\ ("voiceCheckpoint.Play" \in Sounds') <=> (Checkpoint' > Checkpoint)]_vars

\* checkpoint 2 was passed, and the tick that just ended found the player on
\* checkpoint 1: nothing changed and no voice line was played
C31_Witness ==
    /\ Checkpoint = 2
    /\ met.cp = 1
    /\ ~met.player
    /\ "voiceCheckpoint.Play" \notin Sounds

====
